---- MODULE Spec2Model ----
(***************************************************************************)
(* Sparse forward second order automatic differentiation (class spAD2 of   *)
(* agd/AutomaticDifferentiation/Sparse2.py).                               *)
(*                                                                         *)
(* An spAD2 array is a record                                              *)
(*   [shape, value, coef1, index, coef2, index_row, index_col]             *)
(* shape is the outer shape, the sequence of the axis lengths: << >> is a   *)
(* scalar, <<n>> one axis, <<n, m>> two.  The other fields are sequences   *)
(* over the outer positions flattened in C order; value[p]                 *)
(* is a number and the five others hold, at p, the sequence along the last *)
(* (sparse width) axis.  Coefficients are exact integers: the operators    *)
(* only add and multiply them.  Indices are counted from 0 as in the code; *)
(* sequence positions are counted from 1.                                  *)
(***************************************************************************)
EXTENDS Integers, Sequences, FiniteSets, TLC

VARIABLES x, y, res, op, arg, pre

vars == <<x, y, res, op, arg, pre>>

\* ------------------------------------------------------------------ bounds
MaxVal == 2
MaxIndex == 1
MaxLen == 2
MaxPlain == 2

\* ---------------------------------------------------------- numpy helpers
RECURSIVE SeqSum(_)
SeqSum(s) == IF s = << >> THEN 0 ELSE Head(s) + SeqSum(Tail(s))

RECURSIVE SeqMax(_, _)
\* np.max(..., initial=m) over one sequence
SeqMax(s, m) == IF s = << >> THEN m
                ELSE SeqMax(Tail(s), IF Head(s) > m THEN Head(s) ELSE m)

RECURSIVE Flat(_)
\* all last-axis entries of an array field, in C order
Flat(f) == IF f = << >> THEN << >> ELSE Head(f) \o Flat(Tail(f))

RECURSIVE Size(_)
\* the number of outer positions of a shape
Size(shape) == IF shape = << >> THEN 1 ELSE Head(shape) * Size(Tail(shape))

\* numpy broadcasting of two outer shapes (at most one axis each)
CanBroadcast(s, t) == Size(s) = Size(t) \/ Size(s) = 1 \/ Size(t) = 1

BroadcastShape(s, t) ==
    IF s = << >> THEN t
    ELSE IF t = << >> THEN s
    ELSE IF s[1] = 1 THEN t ELSE s

\* the flat position of an operand with n outer positions that result
\* position p reads under broadcasting
BPos(n, p) == IF n = 1 THEN 1 ELSE p

\* np.broadcast_to(f, shape + f.shape[-1:]) on a field or a value
BroadcastField(f, shape) == [p \in 1..Size(shape) |-> f[BPos(Len(f), p)]]

RECURSIVE Unravel(_, _)
\* np.unravel_index: the multi-index (counted from 0) of the flat C-order
\* position m (counted from 0) of an array of that shape
Unravel(m, shape) ==
    IF shape = << >> THEN << >>
    ELSE <<m \div Size(Tail(shape))>>
         \o Unravel(m % Size(Tail(shape)), Tail(shape))

RECURSIVE Ravel(_, _)
\* np.ravel_multi_index: the flat C-order position of a multi-index
Ravel(idx, shape) ==
    IF shape = << >> THEN 0
    ELSE Head(idx) * Size(Tail(shape)) + Ravel(Tail(idx), Tail(shape))

\* numpy's reading of a negative axis or index against a length n
Normalize(i, n) == IF i < 0 THEN i + n ELSE i

\* np.repeat(s, n, axis=-1) on one last-axis sequence
Repeat(s, n) == [k \in 1..(Len(s) * n) |-> s[((k - 1) \div n) + 1]]

\* np.tile(s, n) on one last-axis sequence
Tile(s, n) == [k \in 1..(Len(s) * n) |-> s[((k - 1) % Len(s)) + 1]]

\* c * s, elementwise on one last-axis sequence
Scale(c, s) == [k \in 1..Len(s) |-> c * s[k]]

\* s * t, elementwise on two last-axis sequences of equal length
Times(s, t) == [k \in 1..Len(s) |-> s[k] * t[k]]

\* np.concatenate((a, b), axis=-1) on two fields of equal outer shape
Concat(a, b) == [p \in 1..Len(a) |-> a[p] \o b[p]]

\* misc._add_dim(v) * f: the value v broadcast against the field f
AddDimTimes(v, f, shape) ==
    [p \in 1..Size(shape) |-> Scale(v[BPos(Len(v), p)], f[BPos(Len(f), p)])]

\* misc._concatenate(a, b, shape): both fields broadcast to shape, then joined
\* along the last axis
_concatenate(a, b, shape) ==
    Concat(BroadcastField(a, shape), BroadcastField(b, shape))

\* a negation that was left out
NegFieldForgotten(f) == f

\* -f on a field
NegField(f) == [p \in 1..Len(f) |-> Scale(-1, f[p])]

\* ------------------------------------------------------- the spAD2 record
size_ad1(a) == Len(a.coef1[1])
size_ad2(a) == Len(a.coef2[1])

\* spAD2.__new__ with broadcast_ad=False: the assertions on the shapes
WellShaped(a) ==
    /\ Len(a.value) = Size(a.shape)
    /\ \A f \in {a.coef1, a.index, a.coef2, a.index_row, a.index_col} :
          Len(f) = Size(a.shape)
    /\ \A p \in 1..Size(a.shape) :
          /\ Len(a.coef1[p]) = Len(a.coef1[1])
          /\ Len(a.index[p]) = Len(a.coef1[1])
          /\ Len(a.coef2[p]) = Len(a.coef2[1])
          /\ Len(a.index_row[p]) = Len(a.coef2[1])
          /\ Len(a.index_col[p]) = Len(a.coef2[1])

spAD2(shape, value, coef1, index, coef2, index_row, index_col) ==
    [shape |-> shape, value |-> value, coef1 |-> coef1, index |-> index,
     coef2 |-> coef2, index_row |-> index_row, index_col |-> index_col]

\* Sparse.identity: unit first-order terms, element p at index shift+p-1
SparseIdentity(constant, shape, shift) ==
    [shape |-> shape, value |-> constant,
     coef |-> [p \in 1..Size(shape) |-> <<1>>],
     index |-> [p \in 1..Size(shape) |-> <<shift + p - 1>>]]

identity(constant, shape, shift) ==
    LET arr == SparseIdentity(constant, shape, shift)
        empty == [p \in 1..Size(arr.shape) |-> << >>]
    IN  spAD2(arr.shape, arr.value, arr.coef, arr.index, empty, empty, empty)

\* a plain operand: a Python scalar (isarray FALSE) or an ndarray
Plain(isarray, shape, value) ==
    [isarray |-> isarray, shape |-> shape, value |-> value]

IsAD(o) == "coef1" \in DOMAIN o

Error(what) == [kind |-> "error", what |-> what]
Returned(a) == [kind |-> "spAD2", arr |-> a]
None == [kind |-> "none"]

\* ---------------------------------------------------------------- operators
__add__(self, other) ==
    IF IsAD(other)
    THEN LET shape == BroadcastShape(self.shape, other.shape)
         IN  spAD2(shape,
                   [p \in 1..Size(shape) |->
                       self.value[BPos(Len(self.value), p)]
                       + other.value[BPos(Len(other.value), p)]],
                   _concatenate(self.coef1, other.coef1, shape),
                   _concatenate(self.index, other.index, shape),
                   _concatenate(self.coef2, other.coef2, shape),
                   _concatenate(self.index_row, other.index_row, shape),
                   _concatenate(self.index_col, other.index_col, shape))
    ELSE LET shape == BroadcastShape(self.shape, other.shape)
         IN  spAD2(shape,
                   [p \in 1..Size(shape) |->
                       self.value[BPos(Len(self.value), p)]
                       + other.value[BPos(Len(other.value), p)]],
                   BroadcastField(self.coef1, shape),
                   BroadcastField(self.index, shape),
                   BroadcastField(self.coef2, shape),
                   BroadcastField(self.index_row, shape),
                   BroadcastField(self.index_col, shape))

__sub__(self, other) ==
    IF IsAD(other)
    THEN LET shape == BroadcastShape(self.shape, other.shape)
         IN  spAD2(shape,
                   [p \in 1..Size(shape) |->
                       self.value[BPos(Len(self.value), p)]
                       - other.value[BPos(Len(other.value), p)]],
                   _concatenate(self.coef1, NegField(other.coef1), shape),
                   _concatenate(self.index, other.index, shape),
                   _concatenate(self.coef2, NegField(other.coef2), shape),
                   _concatenate(self.index_row, other.index_row, shape),
                   _concatenate(self.index_col, other.index_col, shape))
    ELSE LET shape == BroadcastShape(self.shape, other.shape)
         IN  spAD2(shape,
                   [p \in 1..Size(shape) |->
                       self.value[BPos(Len(self.value), p)]
                       - other.value[BPos(Len(other.value), p)]],
                   BroadcastField(self.coef1, shape),
                   BroadcastField(self.index, shape),
                   BroadcastField(self.coef2, shape),
                   BroadcastField(self.index_row, shape),
                   BroadcastField(self.index_col, shape))

__neg__(self) ==
    spAD2(self.shape, Scale(-1, self.value),
          NegField(self.coef1), self.index,
          NegField(self.coef2), self.index_row, self.index_col)

__rsub__(self, other) == __neg__(__sub__(self, other))

\* np.repeat(a.coef1, len_b, axis=-1) * np.tile(b.coef1, len_a), broadcast
OuterProduct(fa, fb, shape) ==
    [p \in 1..Size(shape) |->
        LET ca == fa[BPos(Len(fa), p)]
            cb == fb[BPos(Len(fb), p)]
        IN  Times(Repeat(ca, Len(cb)), Tile(cb, Len(ca)))]

\* np.broadcast_to(np.repeat(f, n, axis=-1), shape + ...)
RepeatField(f, n, shape) ==
    [p \in 1..Size(shape) |-> Repeat(f[BPos(Len(f), p)], n)]

\* np.broadcast_to(np.tile(f, n), shape + ...)
TileField(f, n, shape) ==
    [p \in 1..Size(shape) |-> Tile(f[BPos(Len(f), p)], n)]

\* the second-order entries __mul__ makes of the two operands' first-order
\* terms: the products coef2_ab, once at (index2_a, index2_b) and once at
\* (index2_b, index2_a)
CrossTermsOnce(self, other, shape) ==
    LET coef2_ab == OuterProduct(self.coef1, other.coef1, shape)
        index2_a == RepeatField(self.index, size_ad1(other), shape)
        index2_b == TileField(other.index, size_ad1(self), shape)
    IN  [coef |-> coef2_ab, row |-> index2_a, col |-> index2_b]

CrossTerms(self, other, shape) ==
    LET len_a == size_ad1(self)
        len_b == size_ad1(other)
        coef2_ab == OuterProduct(self.coef1, other.coef1, shape)
        index2_a == RepeatField(self.index, len_b, shape)
        index2_b == TileField(other.index, len_a, shape)
    IN  [coef |-> Concat(coef2_ab, coef2_ab),
         row |-> Concat(index2_a, index2_b),
         col |-> Concat(index2_b, index2_a)]

__mul__(self, other) ==
    LET shape == BroadcastShape(self.shape, other.shape)
        value == [p \in 1..Size(shape) |->
                     self.value[BPos(Len(self.value), p)]
                     * other.value[BPos(Len(other.value), p)]]
    IN  IF IsAD(other)
        THEN LET coef1_a == AddDimTimes(other.value, self.coef1, shape)
                 coef1_b == AddDimTimes(self.value, other.coef1, shape)
                 index_a == BroadcastField(self.index, shape)
                 index_b == BroadcastField(other.index, shape)
                 coef2_a == AddDimTimes(other.value, self.coef2, shape)
                 coef2_b == AddDimTimes(self.value, other.coef2, shape)
                 index_row_a == BroadcastField(self.index_row, shape)
                 index_row_b == BroadcastField(other.index_row, shape)
                 index_col_a == BroadcastField(self.index_col, shape)
                 index_col_b == BroadcastField(other.index_col, shape)
                 ab == CrossTerms(self, other, shape)
             IN  spAD2(shape, value,
                       Concat(coef1_a, coef1_b), Concat(index_a, index_b),
                       Concat(Concat(coef2_a, coef2_b), ab.coef),
                       Concat(Concat(index_row_a, index_row_b), ab.row),
                       Concat(Concat(index_col_a, index_col_b), ab.col))
        ELSE spAD2(shape, value,
                   AddDimTimes(other.value, self.coef1, shape),
                   BroadcastField(self.index, shape),
                   AddDimTimes(other.value, self.coef2, shape),
                   BroadcastField(self.index_row, shape),
                   BroadcastField(self.index_col, shape))

\* the ordered pairs of self's first-order entries: coef1_r*coef1_t at
\* (index_r, index_t), a repeat against a tile
SelfPairsRepeatTwice(self) ==
    LET len_1 == size_ad1(self)
    IN  [coef |-> OuterProduct(self.coef1, self.coef1, self.shape),
         row |-> RepeatField(self.index, len_1, self.shape),
         col |-> RepeatField(self.index, len_1, self.shape)]

SelfPairs(self) ==
    LET len_1 == size_ad1(self)
    IN  [coef |-> OuterProduct(self.coef1, self.coef1, self.shape),
         row |-> RepeatField(self.index, len_1, self.shape),
         col |-> TileField(self.index, len_1, self.shape)]

\* deriv = (a, b, c) = (f(x), f'(x), f''(x)), each of self's outer shape
_math_helper(self, deriv) ==
    LET a == deriv[1]
        b == deriv[2]
        c == deriv[3]
        shape == self.shape
        rt == SelfPairs(self)
    IN  spAD2(shape, a,
              AddDimTimes(b, self.coef1, shape), self.index,
              Concat(AddDimTimes(b, self.coef2, shape),
                     AddDimTimes(c, rt.coef, shape)),
              Concat(self.index_row, rt.row),
              Concat(self.index_col, rt.col))

\* ----------------------------------------------------------------- indexing
\* A key is a tuple with one item per leading axis: <<"int", i>> is the
\* integer i (negative ones count from the end), <<"all">> is the slice ":".
\* Axes beyond the key are taken whole.
KeyItem(key, axis) == IF axis <= Len(key) THEN key[axis] ELSE <<"all">>

\* numpy raises IndexError for too many indices or an integer out of bounds
KeyValid(key, shape) ==
    /\ Len(key) <= Len(shape)
    /\ \A a \in 1..Len(key) :
          key[a][1] = "int" =>
              /\ key[a][2] < shape[a]
              /\ key[a][2] >= - shape[a]

\* the shape of value[key]: the axes the key takes whole
RECURSIVE KeyShapeFrom(_, _, _)
KeyShapeFrom(key, shape, a) ==
    IF a > Len(shape) THEN << >>
    ELSE (IF KeyItem(key, a)[1] = "int" THEN << >> ELSE <<shape[a]>>)
         \o KeyShapeFrom(key, shape, a + 1)

KeyShape(key, shape) == KeyShapeFrom(key, shape, 1)

\* the multi-index in the source of position idx (a multi-index of value[key])
RECURSIVE KeySourceFrom(_, _, _, _)
KeySourceFrom(key, shape, idx, a) ==
    IF a > Len(shape) THEN << >>
    ELSE IF KeyItem(key, a)[1] = "int"
         THEN <<Normalize(KeyItem(key, a)[2], shape[a])>>
              \o KeySourceFrom(key, shape, idx, a + 1)
         ELSE <<Head(idx)>> \o KeySourceFrom(key, shape, Tail(idx), a + 1)

\* the flat positions (counted from 1) of the source that value[key] reads, in
\* the C order of value[key]
KeyPositions(key, shape) ==
    LET sel == KeyShape(key, shape)
    IN  [q \in 1..Size(sel) |->
            1 + Ravel(KeySourceFrom(key, shape, Unravel(q - 1, sel), 1), shape)]

\* misc.key_expand(key): a key without an Ellipsis or a boolean mask applies
\* to the term arrays as it stands, the last axis being taken whole
key_expand(key) == key

\* f[ekey] on a field
TakeField(f, key, shape) ==
    LET at == KeyPositions(key_expand(key), shape)
    IN  [q \in 1..Len(at) |-> f[at[q]]]

__getitem__(self, key) ==
    IF ~KeyValid(key, self.shape) THEN Error("IndexError")
    ELSE Returned(spAD2(KeyShape(key, self.shape),
                        TakeField(self.value, key, self.shape),
                        TakeField(self.coef1, key, self.shape),
                        TakeField(self.index, key, self.shape),
                        TakeField(self.coef2, key, self.shape),
                        TakeField(self.index_row, key, self.shape),
                        TakeField(self.index_col, key, self.shape)))

\* a shape without its leading axes of length 1, down to n axes
RECURSIVE StripOnes(_, _)
StripOnes(shape, n) ==
    IF Len(shape) > n /\ Head(shape) = 1 THEN StripOnes(Tail(shape), n)
    ELSE shape

\* numpy assigns an array of shape from to a selection of shape to when from,
\* aligned on the last axes, has on each axis the length of to or 1
CanAssign(from, to) ==
    LET f == StripOnes(from, Len(to))
    IN  /\ Len(f) <= Len(to)
        /\ \A a \in 1..Len(f) :
              f[a] = 1 \/ f[a] = to[Len(to) - Len(f) + a]

\* the flat position (from 1) of the array of shape from that lands on
\* position q of the selection of shape to
AssignedFrom(q, from, to) ==
    LET f == StripOnes(from, Len(to))
        idx == Unravel(q - 1, to)
    IN  1 + Ravel([a \in 1..Len(f) |->
                     IF f[a] = 1 THEN 0 ELSE idx[Len(to) - Len(f) + a]], f)

\* f[ekey] = g on a field: the positions the key selects receive g under
\* the broadcasting of assignment
PutField(f, key, shape, g, gshape) ==
    LET at == KeyPositions(key_expand(key), shape)
        sel == KeyShape(key, shape)
    IN  [p \in 1..Len(f) |->
            IF \E q \in 1..Len(at) : at[q] = p
            THEN g[AssignedFrom(CHOOSE q \in 1..Len(at) : at[q] = p,
                                gshape, sel)]
            ELSE f[p]]

\* a coefficient field that the assignment of a plain value leaves alone
ZeroFieldKept(f, key, shape) == f

\* f[ekey] = 0. on a coefficient field
ZeroField(f, key, shape) ==
    LET at == KeyPositions(key_expand(key), shape)
    IN  [p \in 1..Len(f) |->
            IF \E q \in 1..Len(at) : at[q] = p
            THEN [k \in 1..Len(f[p]) |-> 0]
            ELSE f[p]]

\* ---------------------------------------------------------------- conversion
\* the largest stored index itself instead of one more
bound_ad_largest(self) ==
    SeqMax(<<SeqMax(Flat(self.index), -1),
             SeqMax(Flat(self.index_row), -1),
             SeqMax(Flat(self.index_col), -1)>>, -1)

bound_ad(self) ==
    1 + SeqMax(<<SeqMax(Flat(self.index), -1),
                 SeqMax(Flat(self.index_row), -1),
                 SeqMax(Flat(self.index_col), -1)>>, -1)

RECURSIVE put_along_axis_overwrite(_, _, _, _)
\* a scatter that stores c[k] in cell i[k] instead of adding it
put_along_axis_overwrite(acc, c, i, k) ==
    IF k > Len(c) THEN acc
    ELSE put_along_axis_overwrite([acc EXCEPT ![i[k] + 1] = c[k]], c, i, k + 1)

RECURSIVE put_along_axis(_, _, _, _)
\* the loop of to_dense on one element: for each last-axis slot k in turn,
\* cell i[k] of acc becomes its current content plus c[k]
put_along_axis(acc, c, i, k) ==
    IF k > Len(c) THEN acc
    ELSE put_along_axis([acc EXCEPT ![i[k] + 1] = @ + c[k]], c, i, k + 1)

\* the flat cell index_row*dsad + index_col of each second-order entry
FlatIndex(self, dsad) ==
    [p \in 1..Len(self.index_row) |->
        [k \in 1..Len(self.index_row[p]) |->
            self.index_row[p][k] * dsad + self.index_col[p][k]]]

\* an index numpy refuses for an axis of length n
OutOfRange(i, n) == i >= n \/ i < -n

denseAD2(shape, value, coef1, coef2) ==
    [kind |-> "denseAD2", shape |-> shape, value |-> value,
     coef1 |-> coef1, coef2 |-> coef2]

\* coef1[p] has dsad cells; coef2[p] has dsad rows of dsad cells
to_dense(self, dsad) ==
    LET flat == FlatIndex(self, dsad)
        n == Size(self.shape)
    IN  IF \/ \E i \in { Flat(self.index)[k] : k \in 1..Len(Flat(self.index)) } :
                   OutOfRange(i, dsad)
           \/ \E i \in { Flat(flat)[k] : k \in 1..Len(Flat(flat)) } :
                   OutOfRange(i, dsad * dsad)
        THEN Error("IndexError")
        ELSE LET wrap(i, m) == IF i < 0 THEN i + m ELSE i
                 coef1 == [p \in 1..n |->
                    put_along_axis([j \in 1..dsad |-> 0], self.coef1[p],
                        [k \in 1..Len(self.index[p]) |->
                            wrap(self.index[p][k], dsad)], 1)]
                 coef2 == [p \in 1..n |->
                    put_along_axis([j \in 1..(dsad * dsad) |-> 0],
                        self.coef2[p],
                        [k \in 1..Len(flat[p]) |->
                            wrap(flat[p][k], dsad * dsad)], 1)]
             IN  denseAD2(self.shape, self.value, coef1,
                    [p \in 1..n |-> [r \in 1..dsad |-> [cc \in 1..dsad |->
                        coef2[p][(r - 1) * dsad + cc]]]])

\* ------------------------------------------------------------ simplification
RECURSIVE SortedSeq(_)
\* the elements of a finite set of integers in increasing order
SortedSeq(S) ==
    IF S = {} THEN << >>
    ELSE LET m == CHOOSE m \in S : \A z \in S : m <= z
         IN  <<m>> \o SortedSeq(S \ {m})

\* the sum of the coefficients c[k] whose index i[k] is key
SumWhere(c, i, key) ==
    SeqSum([k \in 1..Len(c) |-> IF i[k] = key THEN c[k] ELSE 0])

\* the indices an element keeps: those whose summed coefficient is not zero
KeptKeys(c, i) ==
    SortedSeq({ key \in { i[k] : k \in 1..Len(i) } : SumWhere(c, i, key) # 0 })

\* Sparse.spAD.simplify_ad on the fields (coef, index): per element one entry
\* per index with the summed coefficient, zero coefficients dropped; the new
\* width is the largest number of entries an element keeps, shorter elements
\* are padded with coefficient 0 at index 0
SparseSimplify(coef, index) ==
    LET n == Len(coef)
        kept == [p \in 1..n |-> KeptKeys(coef[p], index[p])]
        width == SeqMax([p \in 1..n |-> Len(kept[p])], 0)
    IN  [coef |-> [p \in 1..n |-> [k \in 1..width |->
                      IF k <= Len(kept[p])
                      THEN SumWhere(coef[p], index[p], kept[p][k]) ELSE 0]],
         index |-> [p \in 1..n |-> [k \in 1..width |->
                      IF k <= Len(kept[p]) THEN kept[p][k] ELSE 0]]]

\* a column count that is the largest column index, not one more
n_col_max_only(self) ==
    SeqMax(Tail(Flat(self.index_col)), Head(Flat(self.index_col)))

\* n_col = 1 + np.max(self.index_col)
n_col(self) ==
    1 + SeqMax(Tail(Flat(self.index_col)), Head(Flat(self.index_col)))

\* the combined key index_row*n_col + index_col of each second-order entry
CombinedKey(self, nc) ==
    [p \in 1..Len(self.index_row) |->
        [k \in 1..Len(self.index_row[p]) |->
            self.index_row[p][k] * nc + self.index_col[p][k]]]

\* simplify_ad works in place: self is the array after the call, ret what the
\* call returned (None) or raised
simplify_ad(self) ==
    LET spHelper1 == SparseSimplify(self.coef1, self.index)
        self1 == [self EXCEPT !.coef1 = spHelper1.coef,
                              !.index = spHelper1.index]
    IN  IF Flat(self.index_col) = << >>
        THEN [self |-> self1, ret |-> Error("ValueError")]
        ELSE LET nc == n_col(self1)
                 spHelper2 == SparseSimplify(self1.coef2, CombinedKey(self1, nc))
             IN  [self |-> [self1 EXCEPT
                      !.coef2 = spHelper2.coef,
                      !.index_row = [p \in 1..Len(spHelper2.index) |->
                          [k \in 1..Len(spHelper2.index[p]) |->
                              spHelper2.index[p][k] \div nc]],
                      !.index_col = [p \in 1..Len(spHelper2.index) |->
                          [k \in 1..Len(spHelper2.index[p]) |->
                              spHelper2.index[p][k] % nc]]],
                  ret |-> None]

\* ------------------------------------------------------------ linear algebra
\* Sparse.spAD.to_dense(dsad).coef: per element, cell j of a length dsad
\* vector is the sum of the coefficients stored with index j
SparseToDenseCoef(coef, index, dsad) ==
    [p \in 1..Len(coef) |->
        [j \in 1..dsad |-> SumWhere(coef[p], index[p], j - 1)]]

triplets(self) ==
    [coef |-> self.coef2, row |-> self.index_row, col |-> self.index_col]

\* the matrix M with a column replaced by the vector v
ReplaceCol(M, col, v) ==
    [r \in 1..Len(M) |-> [cc \in 1..Len(M) |->
        IF cc = col THEN v[r] ELSE M[r][cc]]]

\* the matrix M without its first row and without column col
Minor(M, col) ==
    [r \in 1..(Len(M) - 1) |-> [cc \in 1..(Len(M) - 1) |->
        M[r + 1][IF cc < col THEN cc ELSE cc + 1]]]

RECURSIVE Det(_)
Det(M) ==
    IF Len(M) = 0 THEN 1
    ELSE SeqSum([cc \in 1..Len(M) |->
            (IF cc % 2 = 1 THEN 1 ELSE -1) * M[1][cc] * Det(Minor(M, cc))])

\* misc.spsolve(mat, rhs), the external sparse solver, on one scalar's
\* triplets (coef, row, col: sequences) and right-hand side: duplicate
\* (row, col) entries add up; the solution s of M s = rhs is returned exactly,
\* as the fractions num[i] / den (Cramer's rule).  The solver cannot infer the
\* dimensions of a matrix without triplets and fails.
spsolve(mat, rhs) ==
    LET n == Len(rhs)
        M == [r \in 1..n |-> [cc \in 1..n |->
                SeqSum([k \in 1..Len(mat.coef) |->
                    IF mat.row[k] = r - 1 /\ mat.col[k] = cc - 1
                    THEN mat.coef[k] ELSE 0])]]
    IN  IF Len(mat.coef) = 0 THEN Error("ValueError")
        ELSE IF \E k \in 1..Len(mat.coef) : mat.row[k] >= n \/ mat.col[k] >= n
        THEN Error("ValueError")
        ELSE IF Det(M) = 0 THEN Error("singular")
        ELSE [kind |-> "solution", den |-> Det(M),
              num |-> [i \in 1..n |-> Det(ReplaceCol(M, i, rhs))]]

\* a right-hand side that is the dense gradient, not its negation
StationnarySystemNotNegated(self) ==
    [kind |-> "system",
     mat |-> triplets(self),
     rhs |-> SparseToDenseCoef(self.coef1, self.index, bound_ad(self))]

\* (mat, rhs) of solve_stationnary; rhs[p] is element p's right-hand side
StationnarySystem(self) ==
    [kind |-> "system",
     mat |-> triplets(self),
     rhs |-> [p \in 1..Len(self.coef1) |->
                Scale(-1, SparseToDenseCoef(self.coef1, self.index,
                                            bound_ad(self))[p])]]

\* what reaches the solver for a scalar self: the scalar's own sequences
ScalarSystem(sys) ==
    [mat |-> [coef |-> sys.mat.coef[1], row |-> sys.mat.row[1],
              col |-> sys.mat.col[1]],
     rhs |-> sys.rhs[1]]

solve_stationnary(self, raw) ==
    LET sys == StationnarySystem(self)
    IN  IF raw THEN sys
        ELSE spsolve(ScalarSystem(sys).mat, ScalarSystem(sys).rhs)

\* the entries of a sequence at the positions where keep holds, in order
RECURSIVE Mask(_, _)
Mask(s, keep) ==
    IF s = << >> THEN << >>
    ELSE (IF Head(keep) THEN <<Head(s)>> ELSE << >>)
         \o Mask(Tail(s), Tail(keep))

\* a selection of the entries with row below n and col from n on
pos_transposed(row, col, n) ==
    [k \in 1..Len(row) |-> row[k] < n /\ col[k] >= n]

\* pos = np.logical_and(row>=n,col<n)
pos(row, col, n) ==
    [k \in 1..Len(row) |-> row[k] >= n /\ col[k] < n]

\* solve_weakform on a scalar self
solve_weakform(self, raw) ==
    LET sys == ScalarSystem(solve_stationnary(self, TRUE))
        coef == sys.mat.coef
        row == sys.mat.row
        col == sys.mat.col
        n == Len(sys.rhs) \div 2
        rhs == SubSeq(sys.rhs, n + 1, Len(sys.rhs))
        mat == [coef |-> Mask(coef, pos(row, col, n)),
                row |-> Mask([k \in 1..Len(row) |-> row[k] - n],
                             pos(row, col, n)),
                col |-> Mask(col, pos(row, col, n))]
    IN  IF raw THEN [kind |-> "system", mat |-> mat, rhs |-> rhs]
        ELSE spsolve(mat, rhs)

\* --------------------------------------------------------------- composition
\* misc._pad_last(f, pad_total): zeros appended along the last axis
_pad_last(f, pad_total) ==
    [p \in 1..Len(f) |-> [k \in 1..pad_total |->
        IF k <= Len(f[p]) THEN f[p][k] ELSE 0]]

\* spAD2.concatenate(elems, axis=0) of arrays with one outer axis
concatenate(elems) ==
    LET size_ad1_ == SeqMax([e \in 1..Len(elems) |-> size_ad1(elems[e])], 0)
        size_ad2_ == SeqMax([e \in 1..Len(elems) |-> size_ad2(elems[e])], 0)
        value == Flat([e \in 1..Len(elems) |-> elems[e].value])
    IN  spAD2(<<Len(value)>>, value,
          Flat([e \in 1..Len(elems) |-> _pad_last(elems[e].coef1, size_ad1_)]),
          Flat([e \in 1..Len(elems) |-> _pad_last(elems[e].index, size_ad1_)]),
          Flat([e \in 1..Len(elems) |-> _pad_last(elems[e].coef2, size_ad2_)]),
          Flat([e \in 1..Len(elems) |->
                    _pad_last(elems[e].index_row, size_ad2_)]),
          Flat([e \in 1..Len(elems) |->
                    _pad_last(elems[e].index_col, size_ad2_)]))

\* _flatten_nlast(f, 2) of an array f[k][i] with na rows of width w
Flatten2(f, na, w) ==
    [m \in 1..(na * w) |-> f[((m - 1) \div w) + 1][((m - 1) % w) + 1]]

\* _flatten_nlast(f, 4) of an array f[k][l][i][j] of shape (na, na, nb, nb)
Flatten4(f, na, nb) ==
    [m \in 1..(na * na * nb * nb) |->
        f[((m - 1) \div (nb * nb * na)) + 1]
         [(((m - 1) \div (nb * nb)) % na) + 1]
         [(((m - 1) \div nb) % nb) + 1]
         [((m - 1) % nb) + 1]]

\* mixed entries whose column index is taken from t[k] like the row index
MixedTermsColFromRow(a, b, na, nb) ==
    [coef |-> [k \in 1..na |-> [l \in 1..na |-> [i \in 1..nb |->
                 [j \in 1..nb |->
                    a.coef2[1][k][l] * b.coef1[k][i] * b.coef1[l][j]]]]],
     row |-> [k \in 1..na |-> [l \in 1..na |-> [i \in 1..nb |->
                 [j \in 1..nb |-> b.index[k][i]]]]],
     col |-> [k \in 1..na |-> [l \in 1..na |-> [i \in 1..nb |->
                 [j \in 1..nb |-> b.index[k][j]]]]]]

\* the array of shape (na, na, nb, nb) whose entry [k][l][i][j] is the mixed
\* second-order entry of compose: its coefficient, row index, column index
MixedTerms(a, b, na, nb) ==
    [coef |-> [k \in 1..na |-> [l \in 1..na |-> [i \in 1..nb |->
                 [j \in 1..nb |->
                    a.coef2[1][k][l] * b.coef1[k][i] * b.coef1[l][j]]]]],
     row |-> [k \in 1..na |-> [l \in 1..na |-> [i \in 1..nb |->
                 [j \in 1..nb |-> b.index[k][i]]]]],
     col |-> [k \in 1..na |-> [l \in 1..na |-> [i \in 1..nb |->
                 [j \in 1..nb |-> b.index[l][j]]]]]]

\* compose(a, t): a is a scalar denseAD2 over na intermediates (a.coef1[1] of
\* length na, a.coef2[1] of na rows), t a tuple of spAD2 arrays with one outer
\* axis whose lengths add up to na
compose(a, t) ==
    LET b == concatenate(t)
        na == Len(a.coef1[1])
        nb == size_ad1(b)
        nb2 == size_ad2(b)
        coef1 == [k \in 1..na |-> Scale(a.coef1[1][k], b.coef1[k])]
        coef2_pure == [k \in 1..na |-> Scale(a.coef1[1][k], b.coef2[k])]
        mixed == MixedTerms(a, b, na, nb)
    IN  IF Len(b.value) # na THEN Error("ValueError")
        ELSE Returned(spAD2(<< >>, a.value,
                <<Flatten2(coef1, na, nb)>>, <<Flatten2(b.index, na, nb)>>,
                <<Flatten2(coef2_pure, na, nb2)
                  \o Flatten4(mixed.coef, na, nb)>>,
                <<Flatten2(b.index_row, na, nb2)
                  \o Flatten4(mixed.row, na, nb)>>,
                <<Flatten2(b.index_col, na, nb2)
                  \o Flatten4(mixed.col, na, nb)>>))

\* misc.pow2(x, n) for an integer n >= 2: (x^n, n x^(n-1), n (n-1) x^(n-2)),
\* and for n = -1 on entries that are 1 or -1: (1/x, -1/x^2, 2/x^3)
pow2(value, n) ==
    LET pw(v, k) == IF k = 0 THEN 1 ELSE IF k = 1 THEN v ELSE v * v
    IN  IF n = -1
        THEN <<value, [p \in 1..Len(value) |-> -1],
               [p \in 1..Len(value) |-> 2 * value[p]]>>
        ELSE <<[p \in 1..Len(value) |-> pw(value[p], n - 1) * value[p]],
               [p \in 1..Len(value) |-> n * pw(value[p], n - 1)],
               [p \in 1..Len(value) |-> n * (n - 1) * pw(value[p], n - 2)]>>

__pow__(self, n) == _math_helper(self, pow2(self.value, n))

\* ----------------------------------------------------------------- structure
\* ndarray.reshape(shape), order='C', on the flat C-order data of the value
\* and of the five term arrays: the data stay, the outer shape changes
reshape(self, shape) ==
    IF Size(shape) # Size(self.shape) THEN Error("ValueError")
    ELSE Returned([self EXCEPT !.shape = shape])

flatten(self) == reshape(self, <<Size(self.shape)>>)

RECURSIVE WithoutOnes(_)
\* self.value.squeeze().shape
WithoutOnes(shape) ==
    IF shape = << >> THEN << >>
    ELSE (IF Head(shape) = 1 THEN << >> ELSE <<Head(shape)>>)
         \o WithoutOnes(Tail(shape))

squeeze(self) == reshape(self, WithoutOnes(self.shape))

\* np.broadcast_to accepts a shape that, aligned on the last axes, has on
\* each axis of from the length of from or meets a length 1 of from
CanBroadcastTo(from, to) ==
    /\ Len(from) <= Len(to)
    /\ \A a \in 1..Len(from) :
          from[a] = 1 \/ from[a] = to[Len(to) - Len(from) + a]

\* the flat position (from 1) of the source read at position q of the result
BroadcastFrom(q, from, to) ==
    LET idx == Unravel(q - 1, to)
    IN  1 + Ravel([a \in 1..Len(from) |->
                     IF from[a] = 1 THEN 0
                     ELSE idx[Len(to) - Len(from) + a]], from)

broadcast_to(self, shape) ==
    IF ~CanBroadcastTo(self.shape, shape) THEN Error("ValueError")
    ELSE LET b(f) == [q \in 1..Size(shape) |->
                        f[BroadcastFrom(q, self.shape, shape)]]
         IN  Returned(spAD2(shape, b(self.value), b(self.coef1), b(self.index),
                            b(self.coef2), b(self.index_row),
                            b(self.index_col)))

\* axes is a permutation of 0..n-1 once its negative entries are counted
\* from the end of n axes
IsPermutation(axes, n) ==
    /\ Len(axes) = n
    /\ \A a \in 1..n : axes[a] >= -n /\ axes[a] < n
    /\ \A a \in 1..n, b \in 1..n :
          (a # b) => Normalize(axes[a], n) # Normalize(axes[b], n)

\* ndarray.transpose(axes) on flat C-order data of shape shape, axes a
\* permutation without negative entries: axis a of the result is axis
\* axes[a] of the source
TransposeShape(shape, axes) == [a \in 1..Len(axes) |-> shape[axes[a] + 1]]

TransposeData(data, shape, axes) ==
    LET new == TransposeShape(shape, axes)
    IN  [m \in 1..Len(data) |->
            LET j == Unravel(m - 1, new)
                old == [b \in 1..Len(shape) |->
                          j[CHOOSE a \in 1..Len(axes) : axes[a] + 1 = b]]
            IN  data[1 + Ravel(old, shape)]]

\* tuple(reversed(range(self.ndim)))
ReversedAxes(n) == [a \in 1..n |-> n - a]

\* transpose(axes) for a tuple axes.  The term arrays are transposed with
\* axes2 = tuple(axes) + (ndim,), read against ndim+1 axes: a negative entry
\* then names the axis after the one it names for the value, and numpy
\* refuses a repeated axis.
transpose(self, axes) ==
    LET n == Len(self.shape)
        axes2 == axes \o <<n>>
    IN  IF ~IsPermutation(axes, n) THEN Error("ValueError")
        ELSE IF ~IsPermutation(axes2, n + 1) THEN Error("ValueError")
        ELSE LET t(f) == TransposeData(f, self.shape, axes)
             IN  Returned(spAD2(TransposeShape(self.shape, axes),
                                t(self.value), t(self.coef1), t(self.index),
                                t(self.coef2), t(self.index_row),
                                t(self.index_col)))

\* transpose(): if axes is None: axes = tuple(reversed(range(self.ndim)))
transpose_None(self) == transpose(self, ReversedAxes(Len(self.shape)))

\* ---------------------------------------------------------------- reductions
\* a shape without its axis a (counted from 0)
DropAxis(shape, a) ==
    [b \in 1..(Len(shape) - 1) |-> IF b <= a THEN shape[b] ELSE shape[b + 1]]

\* np.moveaxis(A, source, -1) on the flat C-order data of an array of that
\* full shape: the axis source, counted against all the axes of A, becomes
\* the last one
MovedShape(shape, source) ==
    DropAxis(shape, Normalize(source, Len(shape)))
    \o <<shape[Normalize(source, Len(shape)) + 1]>>

moveaxis(data, shape, source) ==
    LET n == Len(shape)
        s == Normalize(source, n)
        new == MovedShape(shape, source)
    IN  [m \in 1..Len(data) |->
            LET j == Unravel(m - 1, new)
                old == [b \in 1..n |->
                          IF b <= s THEN j[b]
                          ELSE IF b = s + 1 THEN j[n]
                          ELSE j[b - 1]]
            IN  data[1 + Ravel(old, shape)]]

\* the rows of length w of flat data: reshape(value.shape + (w,))
Rows(data, w, n) ==
    [p \in 1..n |-> [k \in 1..w |-> data[(p - 1) * w + k]]]

\* self.value.sum(axis) for a valid axis
SumValue(value, shape, axis) ==
    LET a == Normalize(axis, Len(shape))
        new == DropAxis(shape, a)
    IN  [q \in 1..Size(new) |->
            LET j == Unravel(q - 1, new)
            IN  SeqSum([i \in 1..shape[a + 1] |->
                    value[1 + Ravel([b \in 1..Len(shape) |->
                                       IF b <= a THEN j[b]
                                       ELSE IF b = a + 1 THEN i - 1
                                       ELSE j[b - 1]], shape)]])]

\* the term array f of width w folded as sum does:
\* np.moveaxis(f, axis, -1).reshape(value.shape + (w * self.shape[axis],))
FoldField(f, shape, w, axis) ==
    LET full == shape \o <<w>>
        len == shape[Normalize(axis, Len(shape)) + 1]
    IN  Rows(moveaxis(Flat(f), full, axis), w * len,
             Size(DropAxis(shape, Normalize(axis, Len(shape)))))

\* sum(axis) for an integer axis; numpy raises AxisError on the value when
\* the axis is not one of the outer axes
sum(self, axis) ==
    LET n == Len(self.shape)
    IN  IF axis >= n \/ axis < - n THEN Error("AxisError")
        ELSE Returned(spAD2(
                DropAxis(self.shape, Normalize(axis, n)),
                SumValue(self.value, self.shape, axis),
                FoldField(self.coef1, self.shape, size_ad1(self), axis),
                FoldField(self.index, self.shape, size_ad1(self), axis),
                FoldField(self.coef2, self.shape, size_ad2(self), axis),
                FoldField(self.index_row, self.shape, size_ad2(self), axis),
                FoldField(self.index_col, self.shape, size_ad2(self), axis)))

\* sum(axis=None): self.flatten().sum(axis=0)
sum_all(self) == sum(flatten(self).arr, 0)

\* ------------------------------------------------------------------ joining
\* spAD2(e): a plain array becomes an spAD2 array of widths 0
AsAD(e) ==
    IF IsAD(e) THEN e
    ELSE LET empty == [p \in 1..Size(e.shape) |-> << >>]
         IN  spAD2(e.shape, e.value, empty, empty, empty, empty, empty)

\* np.concatenate accepts arrays of one and the same number (at least 1) of
\* axes, equal lengths off the joined axis, and an axis among their axes
CanConcatenate(shapes, axis) ==
    LET n == Len(shapes[1])
    IN  /\ n >= 1
        /\ axis < n /\ axis >= - n
        /\ \A e \in 1..Len(shapes) :
              /\ Len(shapes[e]) = n
              /\ \A b \in 1..n :
                    (b # Normalize(axis, n) + 1) => shapes[e][b] = shapes[1][b]

\* the shape of np.concatenate over arrays of these shapes
ConcatenatedShape(shapes, axis) ==
    LET a == Normalize(axis, Len(shapes[1])) + 1
    IN  [shapes[1] EXCEPT
           ![a] = SeqSum([e \in 1..Len(shapes) |-> shapes[e][a]])]

RECURSIVE Locate(_, _, _)
\* the array, and the position along the joined axis inside it, that holds
\* position i (from 0) along the joined axis of the result
Locate(i, lens, e) ==
    IF i < lens[e] THEN <<e, i>> ELSE Locate(i - lens[e], lens, e + 1)

\* np.concatenate(datas, axis) on flat C-order data of these full shapes
ConcatenatedData(datas, shapes, axis) ==
    LET a == Normalize(axis, Len(shapes[1])) + 1
        new == ConcatenatedShape(shapes, axis)
        lens == [e \in 1..Len(shapes) |-> shapes[e][a]]
    IN  [m \in 1..Size(new) |->
            LET j == Unravel(m - 1, new)
                at == Locate(j[a], lens, 1)
            IN  datas[at[1]][1 + Ravel([j EXCEPT ![a] = at[2]],
                                       shapes[at[1]])]]

\* an axis of the term arrays equal to the axis of the values as written
axis1_same(axis) == axis

\* axis1 = axis if axis>=0 else axis-1
axis1(axis) == IF axis >= 0 THEN axis ELSE axis - 1

\* one term array of concatenate: every operand's array padded to width w,
\* joined along axis1 of the full shapes
JoinField(fields, shapes, w, axis) ==
    LET full == [e \in 1..Len(shapes) |-> shapes[e] \o <<w>>]
        datas == [e \in 1..Len(fields) |-> Flat(_pad_last(fields[e], w))]
        new == ConcatenatedShape(full, axis1(axis))
    IN  Rows(ConcatenatedData(datas, full, axis1(axis)), new[Len(new)],
             Size(SubSeq(new, 1, Len(new) - 1)))

\* spAD2.concatenate(elems, axis)
concatenate_along(elems, axis) ==
    LET elems2 == [e \in 1..Len(elems) |-> AsAD(elems[e])]
        shapes == [e \in 1..Len(elems) |-> elems2[e].shape]
        size_ad1_ == SeqMax([e \in 1..Len(elems) |-> size_ad1(elems2[e])], 0)
        size_ad2_ == SeqMax([e \in 1..Len(elems) |-> size_ad2(elems2[e])], 0)
    IN  IF ~CanConcatenate(shapes, axis) THEN Error("ValueError")
        ELSE Returned(spAD2(
               ConcatenatedShape(shapes, axis),
               ConcatenatedData([e \in 1..Len(elems) |-> elems2[e].value],
                                shapes, axis),
               JoinField([e \in 1..Len(elems) |-> elems2[e].coef1],
                         shapes, size_ad1_, axis),
               JoinField([e \in 1..Len(elems) |-> elems2[e].index],
                         shapes, size_ad1_, axis),
               JoinField([e \in 1..Len(elems) |-> elems2[e].coef2],
                         shapes, size_ad2_, axis),
               JoinField([e \in 1..Len(elems) |-> elems2[e].index_row],
                         shapes, size_ad2_, axis),
               JoinField([e \in 1..Len(elems) |-> elems2[e].index_col],
                         shapes, size_ad2_, axis)))

\* np.expand_dims(e, axis): e reshaped with an axis of length 1 put at axis,
\* counted against the axes of the result
expand_dims(e, axis) ==
    LET a == Normalize(axis, Len(e.shape) + 1)
    IN  [e EXCEPT !.shape =
           [b \in 1..(Len(e.shape) + 1) |->
               IF b <= a THEN e.shape[b]
               ELSE IF b = a + 1 THEN 1
               ELSE e.shape[b - 1]]]

\* spAD2.stack(elems, axis)
stack(elems, axis) ==
    IF \E e \in 1..Len(elems) :
          axis > Len(elems[e].shape) \/ axis < - (Len(elems[e].shape) + 1)
    THEN Error("AxisError")
    ELSE concatenate_along([e \in 1..Len(elems) |->
                               expand_dims(elems[e], axis)], axis)

\* ------------------------------------------------------------------ aliasing
\* a division whose result is built without the assertions of __new__
__truediv___unasserted(self, other) ==
    LET shape == IF other.isarray
                 THEN BroadcastShape(self.shape, other.shape)
                 ELSE self.shape
    IN  Returned(spAD2(shape,
            [p \in 1..Size(shape) |->
                self.value[BPos(Len(self.value), p)]
                * other.value[BPos(Len(other.value), p)]],
            AddDimTimes(other.value, self.coef1, shape), self.index,
            AddDimTimes(other.value, self.coef2, shape),
            self.index_row, self.index_col))

\* self / other for a plain other whose entries are 1 or -1, so that
\* inv = 1./other has the same entries.  The index arrays are handed on as
\* they are: against a wider ndarray the coefficients broadcast and the
\* indices do not, and the assertion of __new__ fails.
__truediv__(self, other) ==
    IF other.isarray /\ BroadcastShape(self.shape, other.shape) # self.shape
    THEN Error("AssertionError")
    ELSE Returned(spAD2(self.shape,
            [p \in 1..Size(self.shape) |->
                self.value[p] * other.value[BPos(Len(other.value), p)]],
            AddDimTimes(other.value, self.coef1, self.shape), self.index,
            AddDimTimes(other.value, self.coef2, self.shape),
            self.index_row, self.index_col))

\* self / other for an spAD2 other: self.__mul__(other.__pow__(-1))
__truediv__spAD2(self, other) == __mul__(self, __pow__(other, -1))

\* other / self: self.__pow__(-1).__mul__(other)
__rtruediv__(self, other) == __mul__(__pow__(self, -1), other)

\* The fields of the result of an operator on self that are the very arrays
\* of self, handed to spAD2.__new__ untouched (misc._test_or_broadcast_ad
\* returns the array it is given when no broadcast is needed).  a is the
\* other operand.
SharedFields(name, a) ==
    IF name \in {"__add__", "__sub__"} /\ ~IsAD(a)
    THEN {"coef1", "index", "coef2", "index_row", "index_col"}
    ELSE IF name \in {"__neg__", "__rsub__", "__truediv__"}
    THEN {"index", "index_row", "index_col"}
    ELSE IF name = "__mul__" /\ ~IsAD(a) /\ ~a.isarray
    THEN {"index", "index_row", "index_col"}
    ELSE IF name \in {"_math_helper", "__pow__"}
    THEN {"index"}
    ELSE IF name = "__rtruediv__" /\ ~a.isarray
    THEN {"index"}
    ELSE {}

\* the fields of r that r[key] = other writes in place: a field that has to
\* be widened is replaced by a new array first
WrittenInPlace(r, other) ==
    IF IsAD(other)
    THEN (IF size_ad1(other) > size_ad1(r) THEN {} ELSE {"coef1", "index"})
         \cup (IF size_ad2(other) > size_ad2(r) THEN {}
               ELSE {"coef2", "index_row", "index_col"})
    ELSE {"coef1", "coef2"}

\* self after an in-place write into r, the result of an operator on self:
\* a field of self that r shares and that was written in place holds what
\* was written
ThroughAlias(self, rnew, shared, written) ==
    [f \in DOMAIN self |->
        IF f \in shared \cap written THEN rnew[f] ELSE self[f]]

\* The fields of y = self[key] that are views of the arrays of self: the term
\* arrays always (self.coef1[ekey] has at least the last axis), the value
\* unless the key selects a single element, which numpy returns as a scalar
\* that np.asarray copies.
ViewFields(self, key) ==
    {"coef1", "index", "coef2", "index_row", "index_col"}
    \cup (IF KeyShape(key, self.shape) = << >> THEN {} ELSE {"value"})

\* self after an in-place write into v = self[key]: the elements of a field
\* that v views and that was written in place hold what was written
ThroughView(self, key, vnew, written) ==
    LET at == KeyPositions(key, self.shape)
    IN  [f \in DOMAIN self |->
            IF f \in ViewFields(self, key) \cap written
            THEN [p \in 1..Len(self[f]) |->
                    IF \E q \in 1..Len(at) : at[q] = p
                    THEN vnew[f][CHOOSE q \in 1..Len(at) : at[q] = p]
                    ELSE self[f][p]]
            ELSE self[f]]

\* ------------------------------------------------------- indexed assignment
\* a widening that pads the first-order lists only to their own width
pad_size_unwidened(w, wother) == w

\* pad_size = max(self.coef.shape[-1], other.coef.shape[-1])
pad_size(w, wother) == IF wother > w THEN wother ELSE w

\* self[key] = other.  ret is what the statement raised, or None; self is the
\* array after the statement.  The value is written first: numpy refuses it
\* (IndexError for the key, ValueError for the shapes) before any field has
\* changed.
__setitem__(self, key, other) ==
    IF ~KeyValid(key, self.shape)
    THEN [self |-> self, ret |-> Error("IndexError")]
    ELSE IF ~CanAssign(other.shape, KeyShape(key, self.shape))
    THEN [self |-> self, ret |-> Error("ValueError")]
    ELSE IF IsAD(other)
    THEN LET value == PutField(self.value, key, self.shape,
                               other.value, other.shape)
             pad1 == pad_size(size_ad1(self), size_ad1(other))
             coef1 == _pad_last(self.coef1, pad1)
             index == _pad_last(self.index, pad1)
             pad2 == pad_size(size_ad2(self), size_ad2(other))
             coef2 == _pad_last(self.coef2, pad2)
             index_row == _pad_last(self.index_row, pad2)
             index_col == _pad_last(self.index_col, pad2)
         IN  [self |->
                spAD2(self.shape, value,
                      PutField(coef1, key, self.shape,
                               _pad_last(other.coef1, pad1), other.shape),
                      PutField(index, key, self.shape,
                               _pad_last(other.index, pad1), other.shape),
                      PutField(coef2, key, self.shape,
                               _pad_last(other.coef2, pad2), other.shape),
                      PutField(index_row, key, self.shape,
                               _pad_last(other.index_row, pad2), other.shape),
                      PutField(index_col, key, self.shape,
                               _pad_last(other.index_col, pad2), other.shape)),
              ret |-> None]
    ELSE [self |->
            [self EXCEPT
               !.value = PutField(self.value, key, self.shape,
                                  other.value, other.shape),
               !.coef1 = ZeroField(self.coef1, key, self.shape),
               !.coef2 = ZeroField(self.coef2, key, self.shape)],
          ret |-> None]

\* -------------------------------------------------------------------- ufuncs
\* the ufuncs __array_ufunc__ lists as piecewise constant
PiecewiseConstant ==
    {"greater", "greater_equal", "less", "less_equal", "equal", "not_equal",
     "floor_divide", "rint", "sign", "heaviside",
     "isfinite", "isinf", "isnan", "isnat",
     "signbit", "floor", "ceil", "trunc"}

RECURSIVE BitAnd(_, _)
\* v & w on integers in two's complement
BitAnd(v, w) ==
    IF v = 0 \/ w = 0 THEN 0
    ELSE IF v = -1 THEN w
    ELSE IF w = -1 THEN v
    ELSE (v % 2) * (w % 2) + 2 * BitAnd(v \div 2, w \div 2)

\* numpy's ufunc on the entries v (and w) of plain arrays; the values of the
\* model are integers, which floor, ceil, rint and trunc leave as they are
UfuncEntry(ufunc, v, w) ==
    CASE ufunc = "greater" -> v > w
      [] ufunc = "greater_equal" -> v >= w
      [] ufunc = "less" -> v < w
      [] ufunc = "less_equal" -> v <= w
      [] ufunc = "equal" -> v = w
      [] ufunc = "not_equal" -> v # w
      [] ufunc = "sign" -> IF v > 0 THEN 1 ELSE IF v < 0 THEN -1 ELSE 0
      [] ufunc = "signbit" -> v < 0
      [] ufunc \in {"floor", "ceil", "rint", "trunc"} -> v
      [] ufunc = "bitwise_and" -> BitAnd(v, w)
      [] ufunc = "invert" -> - v - 1

\* ndarray.__array_ufunc__(ufunc, "__call__", *inputs) on plain arrays: one
\* or two inputs, given by shape and flat values
ndarray(shape, value) == [kind |-> "ndarray", shape |-> shape, value |-> value]

PlainUfunc(ufunc, inputs) ==
    IF Len(inputs) = 1
    THEN ndarray(inputs[1].shape,
                 [p \in 1..Len(inputs[1].value) |->
                     UfuncEntry(ufunc, inputs[1].value[p], 0)])
    ELSE IF ~CanBroadcast(inputs[1].shape, inputs[2].shape)
    THEN Error("ValueError")
    ELSE LET shape == BroadcastShape(inputs[1].shape, inputs[2].shape)
         IN  ndarray(shape,
                [p \in 1..Size(shape) |->
                    UfuncEntry(ufunc,
                       inputs[1].value[BPos(Len(inputs[1].value), p)],
                       inputs[2].value[BPos(Len(inputs[2].value), p)])])

\* inputs_ = (a.value if isinstance(a,spAD2) else a for a in inputs)
Values(inputs) ==
    [k \in 1..Len(inputs) |->
        [shape |-> inputs[k].shape, value |-> inputs[k].value]]

\* spAD2.__array_ufunc__(ufunc, "__call__", *inputs) for a ufunc outside the
\* reimplemented ones: a piecewise constant ufunc is applied to the values,
\* any other one gets NotImplemented, for which numpy raises TypeError
__array_ufunc__(ufunc, inputs) ==
    IF ufunc \in PiecewiseConstant THEN PlainUfunc(ufunc, Values(inputs))
    ELSE Error("TypeError")

\* --------------------------------------------------------------- the inputs
Vals == 0..MaxVal

Shapes == {<< >>} \cup { <<n>> : n \in 1..MaxLen }

\* the arrays the identity factory returns: element p has the value v+p-1 and
\* the global index shift+p-1
Identities ==
    UNION { { identity([p \in 1..Size(sh) |-> v + p - 1], sh, shift) :
                v \in Vals,
                shift \in 0..(MaxIndex + 1 - Size(sh)) } : sh \in Shapes }

\* an identity variable: a scalar of value v at global index i
Var(v, i) == identity(<<v>>, << >>, i)

Scalar(v) == Plain(FALSE, << >>, <<v>>)

\* u * xi for an identity array u and an identity variable xi
Products ==
    { __mul__(u, Var(MaxVal, i)) : u \in Identities, i \in 0..MaxIndex }

\* u * u for an identity array u
Squares == { __mul__(u, u) : u \in Identities }

\* Q = x0*x0 + x1*x1 - 2*x0, x0 and x1 created at the values v0 and v1
Quadratic(v0, v1) ==
    __sub__(__add__(__mul__(Var(v0, 0), Var(v0, 0)),
                    __mul__(Var(v1, 1), Var(v1, 1))),
            __mul__(Var(v0, 0), Scalar(2)))

\* Q = xj * (a*xi - b) with j = 1 - i, xi created at v and xj at w: a
\* quadratic coupling the two variables
Coupling(i, v, w, a, b) ==
    __mul__(Var(w, 1 - i), __sub__(__mul__(Var(v, i), Scalar(a)), Scalar(b)))

Quadratics ==
    { Quadratic(v0, v1) : v0 \in Vals, v1 \in Vals }
    \cup { Coupling(i, v, w, MaxPlain, 1) :
              i \in 0..1, v \in Vals, w \in Vals }

\* q * 0: every coefficient of both orders is zero
Zeroed == { __mul__(q, Scalar(0)) : q \in Squares }

Plains ==
    { Scalar(v) : v \in 1..MaxPlain }
    \cup { Plain(TRUE, <<n>>, [p \in 1..n |-> p]) : n \in 1..MaxLen }

\* the plain divisors: their inverses are integers
Units ==
    { Scalar(1), Scalar(-1) }
    \cup { Plain(TRUE, <<n>>, [p \in 1..n |-> 1 - 2 * (p % 2)]) :
             n \in 1..MaxLen }

\* the triples (f(x), f'(x), f''(x)) handed to _math_helper
Derivs(shape) ==
    { <<[p \in 1..Size(shape) |-> a], [p \in 1..Size(shape) |-> b + p],
        [p \in 1..Size(shape) |-> c]>> :
        a \in {1}, b \in {-3, 1}, c \in {-1, 2} }

\* the dense outer values of compose over na intermediates
DenseOuter(na) ==
    { denseAD2(<< >>, <<v>>, <<[k \in 1..na |-> g + k]>>,
               <<[k \in 1..na |-> [l \in 1..na |-> h + k - 2 * l]]>>) :
        v \in {1}, g \in {-2, 1}, h \in {1, 2} }

\* compose(a, (u,)) for an identity array u of MaxLen elements, and the sum of
\* such an array with itself: the Hessians need not be symmetric
Composed ==
    LET c == { compose(a, <<u>>).arr :
                 u \in { u \in Identities : u.shape = <<MaxLen>> },
                 a \in DenseOuter(MaxLen) }
    IN  c \cup { __add__(q, q) : q \in c }

\* compose(a, (u, w)) for identity arrays u, w of one element at the global
\* indices 0 and MaxIndex+1 and an outer value a whose Hessian has a single
\* off-diagonal entry and whose gradient ignores the second intermediate
Lopsided ==
    { compose(denseAD2(<< >>, <<1>>, <<<<g, 0>>>>, <<h>>),
              <<identity(<<0>>, <<1>>, 0),
                identity(<<1>>, <<1>>, MaxIndex + 1)>>).arr :
        g \in {0, 1},
        h \in { <<<<0, c>>, <<0, 0>>>> : c \in 1..MaxVal }
             \cup { <<<<0, 0>>, <<c, 0>>>> : c \in 1..MaxVal } }

\* the keys tried on an array of that shape: the whole array, the first and
\* the last element, and an integer one past the end
Keys(shape) ==
    IF shape = << >> THEN { << >> }
    ELSE { << <<"all">> >> }
         \cup { << <<"int", i>> >> : i \in {0, -1, shape[1]} }

\* the right-hand sides of an indexed assignment: y, a math function of y
\* (wider than y in the second order), and the plain operands
Assigned ==
    {y} \cup { _math_helper(y, d) :
                 d \in { d \in Derivs(y.shape) : d[2][1] = 2 /\ d[3][1] = 2 } }
        \cup Plains

\* the keys tried on an array of two axes
Keys2 ==
    { << <<"int", 0>> >>, << <<"all">>, <<"int", -1>> >>,
      << <<"int", 1>>, <<"int", 0>> >>, << <<"all">>, <<"all">> >> }

\* the axes orders handed to transpose on an array of n axes: the reversal
\* and the identity, written with non-negative and with negative entries
AxesOrders(n) ==
    { ReversedAxes(n), [a \in 1..n |-> a - 1],
      [a \in 1..n |-> - a], [a \in 1..n |-> a - 1 - n] }

\* ------------------------------------------------------------ the operations
\* no result is pending: the caller is free to issue the next call
Idle == res.kind = "none"

Call(name, a, r) ==
    /\ Idle
    /\ op' = name
    /\ arg' = a
    /\ res' = r
    /\ pre' = x
    /\ UNCHANGED <<x, y>>

Init ==
    /\ x \in Identities \cup Products \cup Quadratics \cup Zeroed
             \cup Composed \cup Lopsided
    /\ y \in Identities \cup Squares
    /\ res = None
    /\ op = "init"
    /\ arg = None
    /\ pre = x

\* what a binary operator returns: numpy refuses shapes that do not broadcast
Broadcasting(other, r) ==
    IF CanBroadcast(x.shape, other.shape) THEN Returned(r)
    ELSE Error("ValueError")

Add == Call("__add__", y, Broadcasting(y, __add__(x, y)))
AddPlain ==
    \E q \in Plains : Call("__add__", q, Broadcasting(q, __add__(x, q)))
Sub == Call("__sub__", y, Broadcasting(y, __sub__(x, y)))
SubPlain ==
    \E q \in Plains : Call("__sub__", q, Broadcasting(q, __sub__(x, q)))
RSub ==
    \E q \in Plains : Call("__rsub__", q, Broadcasting(q, __rsub__(x, q)))
Mul == Call("__mul__", y, Broadcasting(y, __mul__(x, y)))
MulPlain ==
    \E q \in Plains : Call("__mul__", q, Broadcasting(q, __mul__(x, q)))
Neg == Call("__neg__", None, Returned(__neg__(x)))

MathHelper ==
    \E d \in Derivs(x.shape) :
        Call("_math_helper", [deriv |-> d], Returned(_math_helper(x, d)))

Pow == \E n \in 2..3 : Call("__pow__", [n |-> n], Returned(__pow__(x, n)))

ToDense ==
    \E dsad \in 1..(MaxIndex + 2) :
        Call("to_dense", [dsad |-> dsad], to_dense(x, dsad))

Simplify ==
    /\ Idle
    /\ op' = "simplify_ad"
    /\ arg' = None
    /\ pre' = x
    /\ x' = simplify_ad(x).self
    /\ res' = simplify_ad(x).ret
    /\ UNCHANGED y

SolveStationnary ==
    \E raw \in BOOLEAN :
        /\ raw \/ x.shape = << >>
        /\ Call("solve_stationnary", [raw |-> raw], solve_stationnary(x, raw))

SolveWeakform ==
    \E raw \in BOOLEAN :
        /\ x.shape = << >>
        /\ Call("solve_weakform", [raw |-> raw], solve_weakform(x, raw))

Compose ==
    \E t \in {<<x>>, <<x, y>>} :
        /\ \A k \in 1..Len(t) : t[k].shape # << >>
        /\ \E a \in DenseOuter(Len(Flat([k \in 1..Len(t) |-> t[k].value]))) :
              Call("compose", [a |-> a, t |-> t], compose(a, t))

DivPlain ==
    \E q \in Units :
        Call("__truediv__", q,
             IF CanBroadcast(x.shape, q.shape) THEN __truediv__(x, q)
             ELSE Error("ValueError"))

\* every value of the array is 1 or -1, so that its inverse is an integer
UnitValued(a) == \A p \in 1..Len(a.value) : a.value[p] \in {1, -1}

\* x / y for an spAD2 array y
Div ==
    /\ UnitValued(y)
    /\ Call("__truediv__(spAD2)", y, Broadcasting(y, __truediv__spAD2(x, y)))

\* q / x for a plain q
RDiv ==
    /\ UnitValued(x)
    /\ \E q \in Plains :
          Call("__rtruediv__", q, Broadcasting(q, __rtruediv__(x, q)))

\* the operator whose result is pending returned an array that is not a
\* read-only broadcast view of x
OwnResult ==
    /\ res.kind = "spAD2"
    /\ op \in {"__add__", "__sub__", "__rsub__", "__mul__", "__truediv__",
                "__neg__", "_math_helper"}
    /\ res.arr.shape = x.shape
    /\ ~(op = "__mul__" /\ ~IsAD(arg) /\ arg.isarray)

\* r[key] = other on the pending result r of an operator on x, key being the
\* first element of r; the run ends there
SetItemResult ==
    \E other \in {y, Scalar(MaxPlain)} :
        LET r == res.arr
            key == IF r.shape = << >> THEN << >> ELSE << <<"int", 0>> >>
            m == __setitem__(r, key, other)
            shared == SharedFields(op, arg)
        IN  /\ OwnResult
            /\ op' = "r.__setitem__"
            /\ arg' = [origin |-> op, key |-> key, other |-> other]
            /\ pre' = x
            /\ res' = [kind |-> "mutated", arr |-> m.self, ret |-> m.ret]
            /\ x' = IF m.ret = None
                    THEN ThroughAlias(x, m.self, shared,
                                      WrittenInPlace(r, other))
                    ELSE x
            /\ UNCHANGED y

\* v[k] = z on the pending result v = x[key], k being the first element of
\* v, for z = y, a math function of y (wider than y) or a plain scalar; the
\* value is always written in place; the run ends there
SetItemView ==
    \E z \in {y, Scalar(MaxPlain)}
              \cup { _math_helper(y, d) :
                       d \in { d \in Derivs(y.shape) :
                                 d[2][1] = 2 /\ d[3][1] = 2 } } :
        LET v == res.arr
            k == IF v.shape = << >> THEN << >> ELSE << <<"int", 0>> >>
            m == __setitem__(v, k, z)
        IN  /\ op = "__getitem__" /\ res.kind = "spAD2" /\ arg.self = x
            /\ op' = "v.__setitem__"
            /\ arg' = [key |-> arg.key, k |-> k, other |-> z]
            /\ pre' = x
            /\ res' = [kind |-> "mutated", arr |-> m.self, ret |-> m.ret]
            /\ x' = IF m.ret = None
                    THEN ThroughView(x, arg.key, m.self,
                                     WrittenInPlace(v, z) \cup {"value"})
                    ELSE x
            /\ UNCHANGED y

\* r.simplify_ad() on the pending result r of an operator on x: the fields of
\* r are replaced by new arrays; the run ends there
SimplifyResult ==
    /\ OwnResult
    /\ op' = "r.simplify_ad"
    /\ arg' = [origin |-> op]
    /\ pre' = x
    /\ res' = [kind |-> "mutated", arr |-> simplify_ad(res.arr).self,
               ret |-> simplify_ad(res.arr).ret]
    /\ UNCHANGED <<x, y>>

\* the arrays the structural operations are applied to: x, and the array of
\* two axes concatenate((x, y)).reshape((2, n)) when x and y have one axis of
\* the same length n
Operands ==
    {x} \cup (IF x.shape # << >> /\ x.shape = y.shape
              THEN {reshape(concatenate(<<x, y>>), <<2, x.shape[1]>>).arr}
              ELSE {})

\* the tuples of arrays handed to concatenate and stack
ElemLists ==
    {<<x, y>>, <<y, x, y>>}
    \cup { <<x, q>> : q \in { q \in Plains : q.isarray /\ q.shape = <<MaxLen>> } }
    \cup { <<m, m>> : m \in Operands \ {x} }

GetItem ==
    \E self \in Operands :
    \E key \in (IF Len(self.shape) = 2 THEN Keys2 ELSE Keys(self.shape)) :
        Call("__getitem__", [self |-> self, key |-> key],
             __getitem__(self, key))

Reshape ==
    \E self \in Operands :
    \E shape \in { <<Size(self.shape)>>, <<1, Size(self.shape)>>,
                    <<Size(self.shape), 1>>, <<Size(self.shape) + 1>>,
                    << >> } :
        Call("reshape", [self |-> self, shape |-> shape],
             reshape(self, shape))

Flatten ==
    \E self \in Operands : Call("flatten", [self |-> self], flatten(self))

Squeeze ==
    \E self \in Operands : Call("squeeze", [self |-> self], squeeze(self))

BroadcastTo ==
    \E self \in Operands :
    \E shape \in { <<MaxLen>>, <<MaxLen, MaxLen>>, <<1, 1>>, <<MaxLen, 1>> } :
        Call("broadcast_to", [self |-> self, shape |-> shape],
             broadcast_to(self, shape))

Transpose ==
    \E self \in Operands :
    \E axes \in AxesOrders(Len(self.shape)) :
        Call("transpose", [self |-> self, axes |-> axes],
             transpose(self, axes))

TransposeNone ==
    \E self \in Operands :
        Call("transpose", [self |-> self, axes |-> ReversedAxes(Len(self.shape))],
             transpose_None(self))

Sum ==
    \E self \in Operands :
    \E axis \in (-2)..1 :
        Call("sum", [self |-> self, axis |-> axis, all |-> FALSE],
             sum(self, axis))

SumAll ==
    \E self \in Operands :
        Call("sum", [self |-> self, axis |-> 0, all |-> TRUE], sum_all(self))

Concatenate ==
    \E elems \in ElemLists :
    \E axis \in (-2)..1 :
        Call("concatenate", [elems |-> elems, axis |-> axis],
             concatenate_along(elems, axis))

Stack ==
    \E elems \in ElemLists :
    \E axis \in (-2)..1 :
        Call("stack", [elems |-> elems, axis |-> axis], stack(elems, axis))

\* x[key] = other; the run ends with a completed assignment
SetItem ==
    \E key \in Keys(x.shape), other \in Assigned :
        /\ Idle
        /\ op' = "__setitem__"
        /\ arg' = [key |-> key, other |-> other]
        /\ pre' = x
        /\ x' = __setitem__(x, key, other).self
        /\ res' = IF __setitem__(x, key, other).ret = None
                  THEN [kind |-> "assigned"]
                  ELSE __setitem__(x, key, other).ret
        /\ UNCHANGED y

\* the ufuncs applied to x: comparisons, roundings, sign and bitwise ones
Ufuncs == {"less", "equal", "sign", "floor", "rint", "bitwise_and", "invert"}

\* np.<ufunc>(x), np.<ufunc>(x, other) and np.<ufunc>(other, x)
ArrayUfunc ==
    \E ufunc \in Ufuncs :
    \E inputs \in (IF ufunc \in {"sign", "floor", "rint", "invert"}
                    THEN {<<x>>}
                    ELSE {<<x, y>>, <<x, Scalar(1)>>, <<Scalar(1), x>>}) :
        Call("__array_ufunc__", [ufunc |-> ufunc, inputs |-> inputs],
             __array_ufunc__(ufunc, inputs))

\* the caller is done with the pending result
Discard ==
    /\ ~Idle
    /\ res.kind \notin {"assigned", "mutated"}
    /\ res' = None
    /\ op' = "init"
    /\ arg' = None
    /\ pre' = x
    /\ UNCHANGED <<x, y>>

Next ==
    \/ Add \/ AddPlain \/ Sub \/ SubPlain \/ RSub \/ Mul \/ MulPlain \/ Neg
    \/ MathHelper \/ Pow \/ ToDense \/ Simplify
    \/ SolveStationnary \/ SolveWeakform \/ Compose \/ Discard
    \/ SetItem \/ DivPlain \/ SetItemResult \/ SimplifyResult
    \/ GetItem \/ Reshape \/ Flatten \/ Squeeze \/ BroadcastTo \/ Transpose
    \/ TransposeNone
    \/ Sum \/ SumAll \/ Concatenate \/ Stack
    \/ ArrayUfunc \/ Div \/ RDiv \/ SetItemView

Spec == Init /\ [][Next]_vars

\* ================================================================ properties
\* The dense gradient and Hessian of element p of an spAD2 array, read off
\* its term lists: cell k of the gradient is the sum of the first-order
\* coefficients stored with index k, cell (r, c) of the Hessian the sum of the
\* second-order coefficients stored with (row, col) = (r, c).
Grad(a, p, k) == SumWhere(a.coef1[p], a.index[p], k)

Hess(a, p, r, c) ==
    SeqSum([k \in 1..Len(a.coef2[p]) |->
        IF a.index_row[p][k] = r /\ a.index_col[p][k] = c
        THEN a.coef2[p][k] ELSE 0])

\* the global indices the inputs refer to
Idx == 0..(MaxIndex + 1)

\* C1: a*b for two spAD2 arrays of broadcast-compatible shapes has the value
\* a.value*b.value, the first-order terms b.value*(a's terms) followed by
\* a.value*(b's terms) with the indices unchanged, and second-order terms
\* whose dense Hessian is b*H(a) + a*H(b) + g(a)g(b)^T + g(b)g(a)^T, every
\* cross pair of first-order terms being emitted once as (i,j) and once as
\* (j,i).
C1_MulChainRule ==
    (op = "__mul__" /\ IsAD(arg) /\ res.kind = "spAD2") =>
        LET a == x
            b == arg
            r == res.arr
        IN  /\ r.shape = BroadcastShape(a.shape, b.shape)
            /\ WellShaped(r)
            /\ \A p \in 1..Size(r.shape) :
                  LET pa == BPos(Size(a.shape), p)
                      pb == BPos(Size(b.shape), p)
                      av == a.value[pa]
                      bv == b.value[pb]
                      w2 == size_ad2(a) + size_ad2(b)
                  IN  /\ r.value[p] = av * bv
                      /\ r.coef1[p] = Scale(bv, a.coef1[pa])
                                       \o Scale(av, b.coef1[pb])
                      /\ r.index[p] = a.index[pa] \o b.index[pb]
                      /\ size_ad2(r) = w2 + 2 * size_ad1(a) * size_ad1(b)
                      /\ \A i \in Idx, j \in Idx :
                            Hess(r, p, i, j) =
                                bv * Hess(a, pa, i, j) + av * Hess(b, pb, i, j)
                                + Grad(a, pa, i) * Grad(b, pb, j)
                                + Grad(b, pb, i) * Grad(a, pa, j)
                      /\ \A ka \in 1..size_ad1(a), kb \in 1..size_ad1(b) :
                            \E m1 \in (w2 + 1)..size_ad2(r) :
                            \E m2 \in ((w2 + 1)..size_ad2(r)) \ {m1} :
                              /\ r.coef2[p][m1] = a.coef1[pa][ka] * b.coef1[pb][kb]
                              /\ r.coef2[p][m2] = a.coef1[pa][ka] * b.coef1[pb][kb]
                              /\ r.index_row[p][m1] = a.index[pa][ka]
                              /\ r.index_col[p][m1] = b.index[pb][kb]
                              /\ r.index_row[p][m2] = b.index[pb][kb]
                              /\ r.index_col[p][m2] = a.index[pa][ka]

\* a product of two arrays of different outer shapes, both with second-order
\* terms, whose Hessian has an off-diagonal cell
C1_Witness ==
    /\ op = "__mul__" /\ IsAD(arg) /\ res.kind = "spAD2"
    /\ x.shape # arg.shape
    /\ size_ad2(x) > 0 /\ size_ad2(arg) > 0
    /\ \E p \in 1..Size(res.arr.shape) : \E i \in Idx, j \in Idx :
          i # j /\ Hess(res.arr, p, i, j) # 0

\* the chain rule of _math_helper for the array xx, the triple d and the
\* result r
ChainRule(xx, d, r) ==
    LET w1 == size_ad1(xx)
        w2 == size_ad2(xx)
    IN  /\ r.shape = xx.shape
        /\ WellShaped(r)
        /\ r.value = d[1]
        /\ r.index = xx.index
        /\ size_ad1(r) = w1
        /\ size_ad2(r) = w2 + w1 * w1
        /\ \A p \in 1..Size(xx.shape) :
              /\ r.coef1[p] = Scale(d[2][p], xx.coef1[p])
              /\ \A k \in 1..w2 :
                    /\ r.coef2[p][k] = d[2][p] * xx.coef2[p][k]
                    /\ r.index_row[p][k] = xx.index_row[p][k]
                    /\ r.index_col[p][k] = xx.index_col[p][k]
              /\ \A i \in 1..w1, j \in 1..w1 :
                    LET m == w2 + (i - 1) * w1 + j
                    IN  /\ r.coef2[p][m] =
                              d[3][p] * xx.coef1[p][i] * xx.coef1[p][j]
                        /\ r.index_row[p][m] = xx.index[p][i]
                        /\ r.index_col[p][m] = xx.index[p][j]
              /\ \A i \in Idx, j \in Idx :
                    Hess(r, p, i, j) =
                        d[2][p] * Hess(xx, p, i, j)
                        + d[3][p] * Grad(xx, p, i) * Grad(xx, p, j)

\* C2: for an spAD2 array x of widths W1 and W2 and a triple (a, b, c),
\* _math_helper returns the value a, the first-order terms b*(x's terms) with
\* the indices unchanged, and the second-order terms b*(x's second-order
\* terms) followed by c*coef_i*coef_j at (index_i, index_j) for every ordered
\* pair (i, j) of x's first-order entries, i = j included: the second-order
\* width is W2 + W1*W1 and the dense Hessian b*H(x) + c*g(x)g(x)^T.
C2_MathHelperChainRule ==
    /\ (op = "_math_helper" /\ res.kind = "spAD2") =>
            ChainRule(x, arg.deriv, res.arr)
    /\ (op = "__pow__" /\ res.kind = "spAD2") =>
            ChainRule(x, pow2(x.value, arg.n), res.arr)

\* _math_helper on an array with second-order terms and an element that has
\* two first-order entries at different indices
C2_Witness ==
    /\ op = "_math_helper" /\ res.kind = "spAD2"
    /\ size_ad2(x) > 0
    /\ \E p \in 1..Size(x.shape) : \E i \in 1..size_ad1(x), j \in 1..size_ad1(x) :
          /\ x.index[p][i] # x.index[p][j]
          /\ x.coef1[p][i] # 0 /\ x.coef1[p][j] # 0
          /\ arg.deriv[3][p] # 0

\* C3: a+b (a-b) of two spAD2 arrays has the value a.value+b.value
\* (a.value-b.value) and, for both orders, a's entries followed by b's (b's
\* coefficients negated for the difference, the indices unchanged), each width
\* being the sum of the operands' widths; with a plain array or scalar the
\* result keeps a's terms and widths, broadcast to the result's shape, and
\* other - a carries a's terms with negated coefficients.
C3_AddSub ==
    (op \in {"__add__", "__sub__", "__rsub__"} /\ res.kind = "spAD2") =>
        LET a == x
            b == arg
            r == res.arr
            s == IF op = "__add__" THEN 1 ELSE -1
            t == IF op = "__rsub__" THEN -1 ELSE 1
        IN  /\ r.shape = BroadcastShape(a.shape, b.shape)
            /\ WellShaped(r)
            /\ \A p \in 1..Size(r.shape) :
                  LET pa == BPos(Size(a.shape), p)
                      pb == BPos(Size(b.shape), p)
                  IN  /\ r.value[p] = t * (a.value[pa] + s * b.value[pb])
                      /\ IF IsAD(b)
                         THEN /\ r.coef1[p] = a.coef1[pa] \o Scale(s, b.coef1[pb])
                              /\ r.index[p] = a.index[pa] \o b.index[pb]
                              /\ r.coef2[p] = a.coef2[pa] \o Scale(s, b.coef2[pb])
                              /\ r.index_row[p] =
                                    a.index_row[pa] \o b.index_row[pb]
                              /\ r.index_col[p] =
                                    a.index_col[pa] \o b.index_col[pb]
                              /\ size_ad1(r) = size_ad1(a) + size_ad1(b)
                              /\ size_ad2(r) = size_ad2(a) + size_ad2(b)
                         ELSE /\ r.coef1[p] = Scale(t, a.coef1[pa])
                              /\ r.index[p] = a.index[pa]
                              /\ r.coef2[p] = Scale(t, a.coef2[pa])
                              /\ r.index_row[p] = a.index_row[pa]
                              /\ r.index_col[p] = a.index_col[pa]
                              /\ size_ad1(r) = size_ad1(a)
                              /\ size_ad2(r) = size_ad2(a)

\* a difference of two arrays of different shapes whose second operand has a
\* second-order coefficient to negate
C3_Witness ==
    /\ op = "__sub__" /\ IsAD(arg) /\ res.kind = "spAD2"
    /\ x.shape # arg.shape
    /\ size_ad2(x) > 0
    /\ \E p \in 1..Size(arg.shape) : \E k \in 1..size_ad2(arg) :
          arg.coef2[p][k] # 0

\* C4: for a bound exceeding every index stored in x, to_dense(bound) returns
\* per element a gradient of length bound whose cell k is the sum of the
\* first-order coefficients of index k, and a bound x bound Hessian whose cell
\* (r, c) is the sum of the second-order coefficients with (row, col) = (r, c):
\* entries on one cell add up, and (r, c) and (c, r) are kept apart.
C4_ToDense ==
    (op = "to_dense" /\ arg.dsad >= bound_ad(x)) =>
        /\ res.kind = "denseAD2"
        /\ res.shape = x.shape
        /\ res.value = x.value
        /\ \A p \in 1..Size(x.shape) :
              /\ Len(res.coef1[p]) = arg.dsad
              /\ Len(res.coef2[p]) = arg.dsad
              /\ \A k \in 0..(arg.dsad - 1) :
                    res.coef1[p][k + 1] = Grad(x, p, k)
              /\ \A r \in 0..(arg.dsad - 1) :
                    /\ Len(res.coef2[p][r + 1]) = arg.dsad
                    /\ \A c \in 0..(arg.dsad - 1) :
                          res.coef2[p][r + 1][c + 1] = Hess(x, p, r, c)

\* a dense conversion of an element that has two non-zero second-order
\* entries on one cell and an off-diagonal cell different from its transpose
C4_Witness ==
    /\ op = "to_dense" /\ arg.dsad >= bound_ad(x) /\ res.kind = "denseAD2"
    /\ \E p \in 1..Size(x.shape) :
          /\ \E k \in 1..size_ad2(x), l \in 1..size_ad2(x) :
                /\ k # l
                /\ x.index_row[p][k] = x.index_row[p][l]
                /\ x.index_col[p][k] = x.index_col[p][l]
                /\ x.coef2[p][k] # 0 /\ x.coef2[p][l] # 0
          /\ \E r \in 0..(arg.dsad - 1), c \in 0..(arg.dsad - 1) :
                r # c /\ res.coef2[p][r + 1][c + 1] # res.coef2[p][c + 1][r + 1]

\* the (row, col) pairs on which element p of a has a non-zero coefficient
NonZeroCells(a, p) ==
    { <<a.index_row[p][k], a.index_col[p][k]>> :
        k \in { k \in 1..size_ad2(a) : a.coef2[p][k] # 0 } }

\* C5: simplify_ad preserves the value and the dense gradient and Hessian of
\* every element, and merges two second-order entries of an element exactly
\* when they share row and col: the key row*n_col + col is injective over the
\* array's (row, col) pairs, it decodes to the pair it came from, and entries
\* at (i,j) and (j,i), i # j, stay apart.
C5_SimplifyPreserves ==
    (op = "simplify_ad") =>
        LET bound == bound_ad(pre)
        IN  /\ x.shape = pre.shape
            /\ x.value = pre.value
            /\ to_dense(x, bound) = to_dense(pre, bound)
            /\ \A p \in 1..Size(x.shape) :
                  /\ \A k \in 0..(bound - 1) : Grad(x, p, k) = Grad(pre, p, k)
                  /\ \A r \in 0..(bound - 1), c \in 0..(bound - 1) :
                        Hess(x, p, r, c) = Hess(pre, p, r, c)
            /\ (res = None) =>
                  /\ WellShaped(x)
                  /\ \A p \in 1..Size(x.shape) :
                        /\ \A k \in 1..size_ad2(x), l \in 1..size_ad2(x) :
                              ( /\ k # l
                                /\ x.coef2[p][k] # 0 /\ x.coef2[p][l] # 0 )
                              => <<x.index_row[p][k], x.index_col[p][k]>>
                                 # <<x.index_row[p][l], x.index_col[p][l]>>
                        /\ \A k \in 1..size_ad2(x) :
                              x.coef2[p][k] # 0 =>
                                x.coef2[p][k] = Hess(pre, p, x.index_row[p][k],
                                                     x.index_col[p][k])
                        /\ NonZeroCells(x, p) =
                              { rc \in { <<pre.index_row[p][k], pre.index_col[p][k]>> :
                                           k \in 1..size_ad2(pre) } :
                                  Hess(pre, p, rc[1], rc[2]) # 0 }
                  /\ LET nc == n_col(pre)
                         key == CombinedKey(pre, nc)
                     IN  \A p \in 1..Size(pre.shape), q \in 1..Size(pre.shape) :
                         \A k \in 1..size_ad2(pre), l \in 1..size_ad2(pre) :
                           /\ key[p][k] \div nc = pre.index_row[p][k]
                           /\ key[p][k] % nc = pre.index_col[p][k]
                           /\ (key[p][k] = key[q][l]) =>
                                 /\ pre.index_row[p][k] = pre.index_row[q][l]
                                 /\ pre.index_col[p][k] = pre.index_col[q][l]

\* a simplification that merged entries sharing a cell and kept apart the
\* cells (i,j) and (j,i), whose sums differ
C5_Witness ==
    /\ op = "simplify_ad" /\ res = None
    /\ size_ad2(x) < size_ad2(pre)
    /\ \E p \in 1..Size(x.shape) : \E i \in Idx, j \in Idx :
          /\ i # j
          /\ <<i, j>> \in NonZeroCells(x, p) /\ <<j, i>> \in NonZeroCells(x, p)
          /\ Hess(x, p, i, j) # Hess(x, p, j, i)
          /\ \E k \in 1..size_ad2(pre), l \in 1..size_ad2(pre) :
                /\ k # l
                /\ pre.index_row[p][k] = i /\ pre.index_col[p][k] = j
                /\ pre.index_row[p][l] = i /\ pre.index_col[p][l] = j

\* the entries of element p of a field pair with a non-zero coefficient
Entries1(a, p) ==
    { <<a.coef1[p][k], a.index[p][k]>> :
        k \in { k \in 1..size_ad1(a) : a.coef1[p][k] # 0 } }

Entries2(a, p) ==
    { <<a.coef2[p][k], a.index_row[p][k], a.index_col[p][k]>> :
        k \in { k \in 1..size_ad2(a) : a.coef2[p][k] # 0 } }

\* the same term lists up to zero-coefficient padding
SameUpToPadding(a, b) ==
    /\ a.shape = b.shape
    /\ a.value = b.value
    /\ \A p \in 1..Size(a.shape) :
          /\ Entries1(a, p) = Entries1(b, p)
          /\ Entries2(a, p) = Entries2(b, p)

\* C6: simplification is idempotent for both orders: a second simplify_ad on
\* an array the first call simplified succeeds and leaves the first-order and
\* second-order term lists unchanged up to zero-coefficient padding, also
\* when the first call cancelled every term of an order.
C6_SimplifyIdempotent ==
    [][(op = "simplify_ad" /\ res = None /\ op' = "simplify_ad")
        => (res' = None /\ SameUpToPadding(x', x))]_vars

\* the solver returned the vector whose entries are the fractions n[i] / d
Solution(r, n, d) ==
    /\ r.kind = "solution"
    /\ Len(r.num) = Len(n)
    /\ \A i \in 1..Len(n) : r.num[i] * d = n[i] * r.den

\* the statement of C7 as the specification words it: for Q = x0^2 + x1^2 -
\* 2*x0 solve_stationnary returns [1, 0] whatever the values at which x0 and
\* x1 were created
C7_ReturnsStationaryPoint ==
    (op = "solve_stationnary" /\ ~arg.raw) =>
        \A v0 \in Vals, v1 \in Vals :
            (x = Quadratic(v0, v1)) => Solution(res, <<1, 0>>, 1)

\* C7: for a scalar quadratic expression Q built from identity variables,
\* solve_stationnary(Q) returns the solution s of H s = -g, where H and g are
\* the Hessian and the gradient of Q at the values at which the variables were
\* created: s is the step from those values to the stationary point.  For
\* Q = x0^2 + x1^2 - 2*x0 with x0, x1 created at v0, v1 it returns
\* [1 - v0, -v1], which is [1, 0] when both were created at 0.
C7_ReturnsStationaryStep ==
    (op = "solve_stationnary" /\ ~arg.raw) =>
        /\ (res.kind = "solution") =>
              /\ Len(res.num) = bound_ad(x)
              /\ \A r \in 0..(bound_ad(x) - 1) :
                    SeqSum([c \in 1..bound_ad(x) |->
                               Hess(x, 1, r, c - 1) * res.num[c]])
                    = - Grad(x, 1, r) * res.den
        /\ \A v0 \in Vals, v1 \in Vals :
              (x = Quadratic(v0, v1)) => Solution(res, <<1 - v0, - v1>>, 1)

\* the quadratic was built from variables created away from 0 and solved
C7_Witness ==
    /\ op = "solve_stationnary" /\ ~arg.raw
    /\ x = Quadratic(MaxVal, 1)
    /\ Solution(res, <<1 - MaxVal, -1>>, 1)
    /\ ~Solution(res, <<1, 0>>, 1)

\* the right-hand side of solve_stationnary for a scalar: r = -gradient
MinusGradient(a) == [j \in 1..bound_ad(a) |-> - Grad(a, 1, j - 1)]

\* the statement of C8 as the specification words it: with block v the
\* indices below n and block u the indices from n on, the reduced system is
\* made of the Hessian entries with row in v and column in u and of the v
\* sub-vector of r, and on a two-variable quadratic with v at index 0 and u at
\* index 1 the result is the u that makes Q stationary in v
C8_WeakformRowsInLowBlock ==
    (op = "solve_weakform") =>
        LET n == bound_ad(x) \div 2
        IN  /\ arg.raw =>
                  /\ res.mat.coef =
                        Mask(x.coef2[1],
                             [k \in 1..size_ad2(x) |->
                                /\ x.index_row[1][k] < n
                                /\ x.index_col[1][k] >= n])
                  /\ res.rhs = SubSeq(MinusGradient(x), 1, n)
            /\ ~arg.raw =>
                  \A v \in Vals, w \in Vals :
                      (x = Coupling(1, v, w, MaxPlain, 1))
                      => Solution(res, <<1>>, MaxPlain)

\* C8: with the unknowns split at n = bound_ad() // 2 into block u (global
\* indices below n) and block v (indices from n on), solve_weakform builds its
\* reduced system from exactly the Hessian entries whose row lies in the v
\* block and whose column lies in the u block, the rows re-based by n,
\* together with the v sub-vector r[n:] of r = -gradient; its solution s
\* satisfies H_vu s = -g_v, the step of u from the values at which the
\* variables were created to the u at which Q is stationary in v.  On a
\* two-variable quadratic with u at index 0 and v at index 1 (n = 1), u and v
\* created at u0 and v0: for Q = v*(a*u - 1) it returns 1/a - u0, and for
\* Q = u*(a*v - 1) it returns -u0.
C8_WeakformRowsInHighBlock ==
    (op = "solve_weakform") =>
        LET n == bound_ad(x) \div 2
            sel == { k \in 1..size_ad2(x) :
                       x.index_row[1][k] >= n /\ x.index_col[1][k] < n }
            keep == [k \in 1..size_ad2(x) |-> k \in sel]
        IN  /\ arg.raw =>
                  /\ res.kind = "system"
                  /\ res.mat.coef = Mask(x.coef2[1], keep)
                  /\ res.mat.row
                       = Mask([k \in 1..size_ad2(x) |-> x.index_row[1][k] - n],
                              keep)
                  /\ res.mat.col = Mask(x.index_col[1], keep)
                  /\ res.rhs = SubSeq(MinusGradient(x), n + 1, bound_ad(x))
            /\ (~arg.raw /\ res.kind = "solution") =>
                  \A r \in n..(bound_ad(x) - 1) :
                      SeqSum([c \in 1..Len(res.num) |->
                                 Hess(x, 1, r, c - 1) * res.num[c]])
                      = - Grad(x, 1, r) * res.den
            /\ ~arg.raw =>
                  \A v \in Vals, w \in Vals :
                      /\ (x = Coupling(0, v, w, MaxPlain, 1))
                         => Solution(res, <<1 - MaxPlain * v>>, MaxPlain)
                      /\ (x = Coupling(1, v, w, MaxPlain, 1))
                         => Solution(res, <<- w>>, 1)

\* Q = v*(a*u - 1) with u at index 0 created away from 0: the call returned
\* the step 1/a - u0
C8_Witness ==
    /\ op = "solve_weakform" /\ ~arg.raw
    /\ x = Coupling(0, 1, 1, MaxPlain, 1)
    /\ Solution(res, <<1 - MaxPlain>>, MaxPlain)

\* every global index stored in index, index_row or index_col
StoredIndices(a) ==
    { Flat(a.index)[k] : k \in 1..Len(Flat(a.index)) }
    \cup { Flat(a.index_row)[k] : k \in 1..Len(Flat(a.index_row)) }
    \cup { Flat(a.index_col)[k] : k \in 1..Len(Flat(a.index_col)) }

\* one more than the largest stored index, 0 when none is stored
IndexBound(a) ==
    IF StoredIndices(a) = {} THEN 0
    ELSE 1 + CHOOSE m \in StoredIndices(a) : \A i \in StoredIndices(a) : i <= m

\* C9: solve_stationnary(raw=True) returns the pair (H, r) where H is the
\* array's own second-order triplets (coef2, (index_row, index_col)) with the
\* duplicates left unmerged, and r is the negated dense accumulation of the
\* first-order terms over a vector whose length is one more than the largest
\* stored index; the array itself is left unchanged; with raw=False that same
\* pair is what the external solver receives.
C9_RawSystem ==
    (op = "solve_stationnary") =>
        /\ x = pre
        /\ arg.raw =>
              /\ res.kind = "system"
              /\ res.mat.coef = x.coef2
              /\ res.mat.row = x.index_row
              /\ res.mat.col = x.index_col
              /\ Len(res.rhs) = Size(x.shape)
              /\ \A p \in 1..Size(x.shape) :
                    res.rhs[p] = [j \in 1..IndexBound(x) |-> - Grad(x, p, j - 1)]
        /\ ~arg.raw =>
              res = spsolve([coef |-> x.coef2[1], row |-> x.index_row[1],
                             col |-> x.index_col[1]],
                            [j \in 1..IndexBound(x) |-> - Grad(x, 1, j - 1)])

\* a raw system whose triplets hold two entries of one (row, col) cell and
\* whose right-hand side, over more than one index, is not zero
C9_Witness ==
    /\ op = "solve_stationnary" /\ arg.raw
    /\ res.kind = "system"
    /\ \E p \in 1..Size(x.shape) :
          /\ \E k \in 1..size_ad2(x), l \in 1..size_ad2(x) :
                /\ k # l
                /\ res.mat.coef[p][k] # 0 /\ res.mat.coef[p][l] # 0
                /\ res.mat.row[p][k] = res.mat.row[p][l]
                /\ res.mat.col[p][k] = res.mat.col[p][l]
          /\ \E j \in 1..Len(res.rhs[p]) : res.rhs[p][j] # 0
    /\ \A p \in 1..Size(x.shape) : Len(res.rhs[p]) > 1

\* the intermediates of compose(a, t): intermediate k is element
\* Intermediates(t)[k][2] of the array t[Intermediates(t)[k][1]]
Intermediates(t) ==
    Flat([e \in 1..Len(t) |-> [p \in 1..Size(t[e].shape) |-> <<e, p>>]])

\* C10: for a dense second-order outer value a over na intermediates and
\* sparse inner arrays t, compose(a, t) has the value a.value, the dense
\* gradient sum_k a.coef1[k]*g(t[k]) and the dense Hessian
\* sum_k a.coef1[k]*H(t[k]) + sum_{k,l} a.coef2[k,l]*g(t[k])g(t[l])^T over
\* every ordered pair (k,l), the mixed entry taking its row index from t[k]
\* and its column index from t[l].
C10_Compose ==
    (op = "compose" /\ res.kind = "spAD2") =>
        LET a == arg.a
            t == arg.t
            I == Intermediates(t)
            na == Len(I)
            g(k, i) == Grad(t[I[k][1]], I[k][2], i)
            H(k, r, c) == Hess(t[I[k][1]], I[k][2], r, c)
        IN  /\ na = Len(a.coef1[1])
            /\ res.arr.shape = << >>
            /\ res.arr.value = a.value
            /\ WellShaped(res.arr)
            /\ \A i \in Idx :
                  Grad(res.arr, 1, i)
                  = SeqSum([k \in 1..na |-> a.coef1[1][k] * g(k, i)])
            /\ \A r \in Idx, c \in Idx :
                  Hess(res.arr, 1, r, c)
                  = SeqSum([k \in 1..na |-> a.coef1[1][k] * H(k, r, c)])
                    + SeqSum([k \in 1..na |-> SeqSum([l \in 1..na |->
                          a.coef2[1][k][l] * g(k, r) * g(l, c)])])

\* a composition over two inner arrays of different first-order widths, one
\* of them with second-order terms, whose Hessian is not symmetric
C10_Witness ==
    /\ op = "compose" /\ res.kind = "spAD2"
    /\ Len(arg.t) = 2
    /\ size_ad1(arg.t[1]) # size_ad1(arg.t[2])
    /\ size_ad2(arg.t[1]) + size_ad2(arg.t[2]) > 0
    /\ \E r \in Idx, c \in Idx :
          /\ Hess(res.arr, 1, r, c) # Hess(res.arr, 1, c, r)
          /\ Hess(res.arr, 1, r, c) # 0

\* the outer positions (from 1) that x[key] selects
Selected(key, shape) ==
    { KeyPositions(key, shape)[q] : q \in 1..Len(KeyPositions(key, shape)) }

Max(a, b) == IF a > b THEN a ELSE b

\* the list t is the list s followed by entries whose coefficients (in tc,
\* the coefficient list that goes with t) are zero
PaddedFrom(s, t, tc) ==
    /\ Len(t) >= Len(s)
    /\ SubSeq(t, 1, Len(s)) = s
    /\ \A k \in (Len(s) + 1)..Len(t) : tc[k] = 0

\* C11: after x[key] = other with other a spAD2 array, the first-order width
\* of x is max(W1(x), W1(other)) and its second-order width is
\* max(W2(x), W2(other)), each grown on its own, and every element of x that
\* key does not select keeps its value and its entries in their positions,
\* followed only by zero-coefficient padding.
C11_SetItemWidens ==
    (op = "__setitem__" /\ IsAD(arg.other) /\ res.kind = "assigned") =>
        /\ WellShaped(x)
        /\ x.shape = pre.shape
        /\ size_ad1(x) = Max(size_ad1(pre), size_ad1(arg.other))
        /\ size_ad2(x) = Max(size_ad2(pre), size_ad2(arg.other))
        /\ \A p \in (1..Size(x.shape)) \ Selected(arg.key, x.shape) :
              /\ x.value[p] = pre.value[p]
              /\ PaddedFrom(pre.coef1[p], x.coef1[p], x.coef1[p])
              /\ PaddedFrom(pre.index[p], x.index[p], x.coef1[p])
              /\ PaddedFrom(pre.coef2[p], x.coef2[p], x.coef2[p])
              /\ PaddedFrom(pre.index_row[p], x.index_row[p], x.coef2[p])
              /\ PaddedFrom(pre.index_col[p], x.index_col[p], x.coef2[p])
        /\ \A q \in 1..Len(KeyPositions(arg.key, x.shape)) :
              LET p == KeyPositions(arg.key, x.shape)[q]
                  o == AssignedFrom(q, arg.other.shape,
                                    KeyShape(arg.key, x.shape))
              IN  /\ x.value[p] = arg.other.value[o]
                  /\ PaddedFrom(arg.other.coef1[o], x.coef1[p], x.coef1[p])
                  /\ PaddedFrom(arg.other.index[o], x.index[p], x.coef1[p])
                  /\ PaddedFrom(arg.other.coef2[o], x.coef2[p], x.coef2[p])
                  /\ PaddedFrom(arg.other.index_row[o], x.index_row[p],
                                x.coef2[p])
                  /\ PaddedFrom(arg.other.index_col[o], x.index_col[p],
                                x.coef2[p])

\* an assignment that widened the second order and not the first, leaving an
\* element that was not selected with its own second-order entries
C11_Witness ==
    /\ op = "__setitem__" /\ IsAD(arg.other) /\ res.kind = "assigned"
    /\ size_ad1(x) = size_ad1(pre)
    /\ size_ad2(x) > size_ad2(pre)
    /\ \E p \in (1..Size(x.shape)) \ Selected(arg.key, x.shape) :
          \E k \in 1..size_ad2(pre) : pre.coef2[p][k] # 0

\* C12: operators are purely functional: when the result r of an arithmetic
\* operator, a negation or a math function applied to x is later changed in
\* place, by r[key] = plain value, by r[key] = AD value or by
\* r.simplify_ad(), the value, the coefficient arrays and the index arrays of
\* x are what they were.
C12_OperatorsPure ==
    (op \in {"r.__setitem__", "r.simplify_ad"}) => x = pre

\* how many first-order entries of element p of a are (c, i)
Count1(a, p, c, i) ==
    Cardinality({ k \in 1..size_ad1(a) :
                    a.coef1[p][k] = c /\ a.index[p][k] = i })

\* how many second-order entries of element p of a are (c, r, cc)
Count2(a, p, c, r, cc) ==
    Cardinality({ k \in 1..size_ad2(a) :
                    /\ a.coef2[p][k] = c
                    /\ a.index_row[p][k] = r /\ a.index_col[p][k] = cc })

\* the sequence of the outer positions (from 1) of an array of that shape
\* that sum folds into position q of the result: those that differ from q
\* along the axis only
Folded(shape, axis, q) ==
    LET a == Normalize(axis, Len(shape))
        j == Unravel(q - 1, DropAxis(shape, a))
    IN  [i \in 1..shape[a + 1] |->
            1 + Ravel([b \in 1..Len(shape) |->
                         IF b <= a THEN j[b]
                         ELSE IF b = a + 1 THEN i - 1
                         ELSE j[b - 1]], shape)]

\* element q of r holds exactly the entries of the elements from of self
HoldsEntriesOf(r, q, self, from) ==
    /\ r.value[q] = SeqSum([i \in 1..Len(from) |-> self.value[from[i]]])
    /\ \A k \in 1..size_ad1(r) :
          Count1(r, q, r.coef1[q][k], r.index[q][k])
          = SeqSum([i \in 1..Len(from) |->
                Count1(self, from[i], r.coef1[q][k], r.index[q][k])])
    /\ \A k \in 1..size_ad2(r) :
          Count2(r, q, r.coef2[q][k], r.index_row[q][k], r.index_col[q][k])
          = SeqSum([i \in 1..Len(from) |->
                Count2(self, from[i], r.coef2[q][k], r.index_row[q][k],
                       r.index_col[q][k])])

\* C14: for every valid axis of the outer shape, non-negative or negative,
\* x.sum(axis) has the widths W1 and W2 multiplied by the length of the
\* axis, and the term list of each result element is the concatenation of
\* the term lists of the source elements folded along that axis, the ones
\* whose values are summed: no term goes to another result element and no
\* coefficients are combined; sum(axis=None) folds all elements into one.
C14_SumFolds ==
    (op = "sum") =>
        LET self == arg.self
            n == Len(self.shape)
        IN  IF arg.all
            THEN /\ res.kind = "spAD2"
                 /\ res.arr.shape = << >>
                 /\ WellShaped(res.arr)
                 /\ size_ad1(res.arr) = size_ad1(self) * Size(self.shape)
                 /\ size_ad2(res.arr) = size_ad2(self) * Size(self.shape)
                 /\ HoldsEntriesOf(res.arr, 1, self,
                                   [p \in 1..Size(self.shape) |-> p])
            ELSE (arg.axis < n /\ arg.axis >= - n) =>
                 LET len == self.shape[Normalize(arg.axis, n) + 1]
                 IN  /\ res.kind = "spAD2"
                     /\ res.arr.shape
                          = DropAxis(self.shape, Normalize(arg.axis, n))
                     /\ WellShaped(res.arr)
                     /\ size_ad1(res.arr) = size_ad1(self) * len
                     /\ size_ad2(res.arr) = size_ad2(self) * len
                     /\ \A q \in 1..Size(res.arr.shape) :
                           HoldsEntriesOf(res.arr, q, self,
                                          Folded(self.shape, arg.axis, q))

\* element q of r carries the value and all the entries of element p of the
\* operand e (a plain operand has none), followed by zero-coefficient padding
CarriesOperand(r, q, e, p) ==
    /\ r.value[q] = e.value[p]
    /\ IF IsAD(e)
       THEN /\ PaddedFrom(e.coef1[p], r.coef1[q], r.coef1[q])
            /\ PaddedFrom(e.index[p], r.index[q], r.coef1[q])
            /\ PaddedFrom(e.coef2[p], r.coef2[q], r.coef2[q])
            /\ PaddedFrom(e.index_row[p], r.index_row[q], r.coef2[q])
            /\ PaddedFrom(e.index_col[p], r.index_col[q], r.coef2[q])
       ELSE /\ \A k \in 1..size_ad1(r) : r.coef1[q][k] = 0
            /\ \A k \in 1..size_ad2(r) : r.coef2[q][k] = 0

\* the widths of an operand of concatenate or stack
Width1(e) == IF IsAD(e) THEN size_ad1(e) ELSE 0
Width2(e) == IF IsAD(e) THEN size_ad2(e) ELSE 0

\* C15: spAD2.concatenate(elems, axis) and spAD2.stack(elems, axis), for
\* operands of differing widths (a plain array has width 0) and any valid
\* axis, negative ones included, return an array whose widths are the maxima
\* of the operands' widths and in which every element carries the value and
\* all the entries of the operand element it comes from, followed only by
\* zero-coefficient padding: nothing is truncated and the join never runs
\* along the sparse-width axis.
C15_JoinPads ==
    (op \in {"concatenate", "stack"}) =>
        LET elems == arg.elems
            shapes == [e \in 1..Len(elems) |-> elems[e].shape]
            n == Len(shapes[1])
            valid == IF op = "concatenate"
                     THEN CanConcatenate(shapes, arg.axis)
                     ELSE /\ \A e \in 1..Len(elems) : shapes[e] = shapes[1]
                          /\ arg.axis <= n /\ arg.axis >= - (n + 1)
            a == IF op = "concatenate" THEN Normalize(arg.axis, n) + 1
                 ELSE Normalize(arg.axis, n + 1) + 1
            r == res.arr
        IN  valid =>
            /\ res.kind = "spAD2"
            /\ WellShaped(r)
            /\ size_ad1(r) = SeqMax([e \in 1..Len(elems) |-> Width1(elems[e])], 0)
            /\ size_ad2(r) = SeqMax([e \in 1..Len(elems) |-> Width2(elems[e])], 0)
            /\ Len(r.shape) = (IF op = "concatenate" THEN n ELSE n + 1)
            /\ r.shape[a] = (IF op = "concatenate"
                             THEN SeqSum([e \in 1..Len(elems) |-> shapes[e][a]])
                             ELSE Len(elems))
            /\ \A q \in 1..Size(r.shape) :
                  LET j == Unravel(q - 1, r.shape)
                  IN  IF op = "concatenate"
                      THEN LET at == Locate(j[a],
                                       [e \in 1..Len(elems) |-> shapes[e][a]], 1)
                           IN  CarriesOperand(r, q, elems[at[1]],
                                  1 + Ravel([j EXCEPT ![a] = at[2]],
                                            shapes[at[1]]))
                      ELSE CarriesOperand(r, q, elems[j[a] + 1],
                              1 + Ravel(DropAxis(j, a - 1), shapes[1]))

\* a stack along a negative axis of an spAD2 array with a plain array: both
\* widths grow from 0 for the plain operand, whose elements carry padding
C15_Witness ==
    /\ op = "stack" /\ arg.axis < 0 /\ res.kind = "spAD2"
    /\ \E e \in 1..Len(arg.elems) : ~IsAD(arg.elems[e])
    /\ size_ad1(res.arr) > 0 /\ size_ad2(res.arr) > 0
    /\ Len(res.arr.shape) = 2 /\ Size(res.arr.shape) >= 4
    /\ \E q \in 1..Size(res.arr.shape) :
          \E k \in 1..size_ad2(res.arr) : res.arr.coef2[q][k] # 0

\* C13: in every spAD2 array reached by identity construction, operators,
\* indexing, indexed assignment, reshape, broadcast, transpose, sum,
\* concatenate/stack, compose and simplify_ad, coef1 and index have the same
\* shape value.shape + (W1,), and coef2, index_row and index_col the same
\* shape value.shape + (W2,); an operation that cannot establish this (a
\* division by an ndarray that widens the outer shape, whose coefficients
\* broadcast while its indices do not) fails instead of returning an array.
C13_ShapesAgree ==
    /\ WellShaped(x)
    /\ WellShaped(y)
    /\ (res.kind \in {"spAD2", "mutated"}) => WellShaped(res.arr)
    /\ (/\ op = "__truediv__" /\ arg.isarray
        /\ CanBroadcast(pre.shape, arg.shape)
        /\ BroadcastShape(pre.shape, arg.shape) # pre.shape)
       => res.kind = "error"

\* a division of a one-element array with entries by a longer ndarray: the
\* coefficients would broadcast and the indices would not, and it fails
C13_Witness ==
    /\ op = "__truediv__" /\ arg.isarray
    /\ Size(arg.shape) > Size(pre.shape)
    /\ size_ad1(pre) > 0 /\ size_ad2(pre) > 0
    /\ res = Error("AssertionError")

\* element q of r is element p of e: the value and the complete term lists
SameElement(r, q, e, p) ==
    /\ r.value[q] = e.value[p]
    /\ r.coef1[q] = e.coef1[p] /\ r.index[q] = e.index[p]
    /\ r.coef2[q] = e.coef2[p]
    /\ r.index_row[q] = e.index_row[p] /\ r.index_col[q] = e.index_col[p]

\* whether numpy accepts the pending structural operation for the value
StructureValid ==
    CASE op = "__getitem__" -> KeyValid(arg.key, arg.self.shape)
      [] op = "reshape" -> Size(arg.shape) = Size(arg.self.shape)
      [] op = "broadcast_to" -> CanBroadcastTo(arg.self.shape, arg.shape)
      [] op = "transpose" -> IsPermutation(arg.axes, Len(arg.self.shape))
      [] OTHER -> TRUE

\* the shape numpy gives the value
StructureShape ==
    CASE op = "__getitem__" -> KeyShape(arg.key, arg.self.shape)
      [] op = "flatten" -> <<Size(arg.self.shape)>>
      [] op = "squeeze" -> WithoutOnes(arg.self.shape)
      [] op = "transpose" ->
            [a \in 1..Len(arg.axes) |->
                arg.self.shape[Normalize(arg.axes[a], Len(arg.axes)) + 1]]
      [] OTHER -> arg.shape

\* the flat position (from 1) of the source element that numpy places at
\* flat position q (from 1) of the value of the result
StructureSource(q) ==
    CASE op = "__getitem__" -> KeyPositions(arg.key, arg.self.shape)[q]
      [] op = "broadcast_to" -> BroadcastFrom(q, arg.self.shape, arg.shape)
      [] op = "transpose" ->
            LET n == Len(arg.axes)
                j == Unravel(q - 1, StructureShape)
                old == [b \in 1..n |->
                          j[CHOOSE a \in 1..n :
                               Normalize(arg.axes[a], n) + 1 = b]]
            IN  1 + Ravel(old, arg.self.shape)
      [] OTHER -> q

\* C16: x[key], reshape, flatten, squeeze, broadcast_to and transpose(axes),
\* with axes in any form numpy accepts for the value or omitted, move the
\* term lists as they move the values: the result element at outer position
\* p carries the value and the complete first- and second-order term lists
\* of the source element that numpy places at p, and the widths W1 and W2
\* are unchanged.
C16_StructureMovesTerms ==
    (/\ op \in {"__getitem__", "reshape", "flatten", "squeeze",
                 "broadcast_to", "transpose"}
     /\ StructureValid)
    => /\ res.kind = "spAD2"
       /\ WellShaped(res.arr)
       /\ res.arr.shape = StructureShape
       /\ \A q \in 1..Size(StructureShape) :
             SameElement(res.arr, q, arg.self, StructureSource(q))

\* C17: to_dense(bound) fails with an error and returns no dense result
\* whenever bound is smaller than the largest index the array refers to,
\* whether that index is stored in index, in index_row or in index_col: a
\* second-order entry whose column index is out of range is never
\* accumulated into another cell of the Hessian.
C17_ToDenseBound ==
    (op = "to_dense" /\ arg.dsad < IndexBound(x)) => res.kind = "error"

\* the partition of solve_weakform at the split point n = bound div 2 yields
\* an empty block: no Hessian entry of the scalar a has its row from n on and
\* its column below n, or the sub-vector of r from n on is empty
EmptyBlock(a) ==
    LET n == IndexBound(a) \div 2
    IN  \/ IndexBound(a) - n = 0
        \/ ~ \E k \in 1..size_ad2(a) :
                a.index_row[1][k] >= n /\ a.index_col[1][k] < n

\* C18: solve_weakform fails, for raw=True as well as for raw=False,
\* whenever the partition at the split point yields an empty block.
C18_WeakformEmptyBlockFails ==
    (op = "solve_weakform" /\ EmptyBlock(x)) => res.kind = "error"

\* C19: solve_stationnary fails when the array refers to no index at all
\* (both widths 0, so that no bound can be inferred), instead of returning an
\* empty system or an empty solution.
C19_StationnaryNoIndexFails ==
    (op = "solve_stationnary" /\ size_ad1(x) = 0 /\ size_ad2(x) = 0)
    => res.kind = "error"

\* C20: x[key] = other with other an spAD2 array whose outer shape differs
\* from the shape selected by key fails, and on that failure none of x's
\* value, coef1, index, coef2, index_row, index_col has been modified or
\* widened.
C20_SetItemShapeMismatchFails ==
    (/\ op = "__setitem__" /\ IsAD(arg.other)
     /\ KeyValid(arg.key, pre.shape)
     /\ arg.other.shape # KeyShape(arg.key, pre.shape))
    => (res.kind = "error" /\ x = pre)

\* the operations that drop the derivatives: comparisons, roundings, sign
\* and bitwise operations
DerivativeDropping ==
    {"less", "equal", "floor", "rint", "sign", "bitwise_and", "invert"}

\* C21: a derivative-dropping numpy operation (comparison, rounding, sign,
\* bitwise) applied to an spAD2 array returns a plain array computed from
\* the values only, without derivative fields, and never raises an error.
C21_DroppingReturnsPlain ==
    (/\ op = "__array_ufunc__" /\ arg.ufunc \in DerivativeDropping
     /\ Len(arg.inputs) = 2 =>
            CanBroadcast(arg.inputs[1].shape, arg.inputs[2].shape))
    => /\ res.kind = "ndarray"
       /\ DOMAIN res = {"kind", "shape", "value"}
       /\ res = PlainUfunc(arg.ufunc, Values(arg.inputs))

\* 1/p for a plain p whose entries are 1 or -1
Reciprocal(p) ==
    [p EXCEPT !.value = [k \in 1..Len(p.value) |->
                            IF p.value[k] = 1 THEN 1 ELSE -1]]

\* C22: for a plain array or scalar p of any shape that broadcasts with x's
\* outer shape, x / p succeeds exactly when x * (1/p) succeeds and returns
\* the same value, coefficients and indices; x / y for an spAD2 y equals
\* x * y**(-1), and p / x equals (x**(-1)) * p.
C22_DivideIsMultiply ==
    /\ (op = "__truediv__") =>
          IF CanBroadcast(x.shape, arg.shape)
          THEN res = Returned(__mul__(x, Reciprocal(arg)))
          ELSE res.kind = "error"
    /\ (op = "__truediv__(spAD2)") =>
          IF CanBroadcast(x.shape, arg.shape)
          THEN res = Returned(__mul__(x, __pow__(arg, -1)))
          ELSE res.kind = "error"
    /\ (op = "__rtruediv__") =>
          IF CanBroadcast(x.shape, arg.shape)
          THEN res = Returned(__mul__(__pow__(x, -1), arg))
          ELSE res.kind = "error"

\* C23: after x[key] = other every element of x selected by key has other's
\* value and other's derivative data and none of its previous terms: for an
\* spAD2 other the positions beyond other's widths hold zero coefficients and
\* the dense gradient and Hessian are other's; for a plain other all the
\* first- and second-order coefficients of the selected elements are zero,
\* so that their dense gradient and Hessian vanish.
C23_SetItemReplaces ==
    (op = "__setitem__" /\ res.kind = "assigned") =>
        \A q \in 1..Len(KeyPositions(arg.key, x.shape)) :
            LET p == KeyPositions(arg.key, x.shape)[q]
                other == arg.other
                o == AssignedFrom(q, other.shape, KeyShape(arg.key, x.shape))
            IN  /\ x.value[p] = other.value[o]
                /\ IF IsAD(other)
                   THEN /\ \A k \in (size_ad1(other) + 1)..size_ad1(x) :
                              x.coef1[p][k] = 0
                        /\ \A k \in (size_ad2(other) + 1)..size_ad2(x) :
                              x.coef2[p][k] = 0
                        /\ \A i \in Idx : Grad(x, p, i) = Grad(other, o, i)
                        /\ \A i \in Idx, j \in Idx :
                              Hess(x, p, i, j) = Hess(other, o, i, j)
                   ELSE /\ \A k \in 1..size_ad1(x) : x.coef1[p][k] = 0
                        /\ \A k \in 1..size_ad2(x) : x.coef2[p][k] = 0
                        /\ \A i \in Idx : Grad(x, p, i) = 0
                        /\ \A i \in Idx, j \in Idx : Hess(x, p, i, j) = 0

\* an assignment of an spAD2 value narrower in the second order to an
\* element that had a non-zero second-order coefficient beyond that width
C23_Witness ==
    /\ op = "__setitem__" /\ res.kind = "assigned" /\ IsAD(arg.other)
    /\ size_ad2(arg.other) < size_ad2(pre)
    /\ \E p \in Selected(arg.key, x.shape) :
          /\ pre.coef2[p][size_ad2(pre)] # 0
          /\ x.coef2[p][size_ad2(x)] = 0
          /\ \E k \in 1..size_ad1(x) : x.coef1[p][k] # 0

\* element p of a holds the value and the terms it held in b
KeptElement(a, b, p) ==
    /\ a.value[p] = b.value[p]
    /\ a.coef1[p] = b.coef1[p] /\ a.index[p] = b.index[p]
    /\ a.coef2[p] = b.coef2[p]
    /\ a.index_row[p] = b.index_row[p] /\ a.index_col[p] = b.index_col[p]

\* element p of a holds the value and the terms of an element of z (for a
\* plain z: its value and no term)
ReplacedElement(a, p, z) ==
    \E o \in 1..Len(z.value) :
        /\ a.value[p] = z.value[o]
        /\ IF IsAD(z)
           THEN /\ PaddedFrom(z.coef1[o], a.coef1[p], a.coef1[p])
                /\ PaddedFrom(z.index[o], a.index[p], a.coef1[p])
                /\ PaddedFrom(z.coef2[o], a.coef2[p], a.coef2[p])
                /\ PaddedFrom(z.index_row[o], a.index_row[p], a.coef2[p])
                /\ PaddedFrom(z.index_col[o], a.index_col[p], a.coef2[p])
           ELSE /\ \A i \in 1..Len(a.coef1[p]) : a.coef1[p][i] = 0
                /\ \A i \in 1..Len(a.coef2[p]) : a.coef2[p][i] = 0

\* C24: for y = x[key] obtained by slicing, a later y[k] = z, with z of any
\* width, keeps x consistent: for each element of x either its value and
\* its derivative terms are both replaced by z's, or neither is.
C24_ViewAssignmentConsistent ==
    (op = "v.__setitem__" /\ KeyShape(arg.key, pre.shape) # << >>) =>
        \A p \in 1..Size(x.shape) :
            KeptElement(x, pre, p) \/ ReplacedElement(x, p, arg.other)

\* C25: simplify_ad completes without error on every well-formed spAD2
\* array, including one whose second-order width is 0 such as an array
\* freshly returned by identity, and leaves such an array's empty
\* second-order part empty.
C25_SimplifyCompletes ==
    (op = "simplify_ad" /\ WellShaped(pre)) =>
        /\ res.kind # "error"
        /\ (size_ad2(pre) = 0) =>
              (size_ad2(x) = 0 /\ x.index_row = pre.index_row
               /\ x.index_col = pre.index_col)

====
